---- MODULE Spec2Model ----
(***************************************************************************)
(* Model of the identity application's authentication core:                *)
(*   apps/identity/domain/services/auth_service.py  (AuthService)          *)
(*   apps/identity/domain/models/user.py            (User, UserManager)    *)
(*   apps/identity/admin.py                         (bulk admin actions)   *)
(*   apps/identity/api/auth.py, auth_endpoints.py   (JWTAuth, handlers)    *)
(* Strings that the code transforms (emails, passwords) are sequences of   *)
(* one-character strings, so that lower(), strip(), len() and isdigit()    *)
(* are computed and not assumed.  Time is counted in ticks; there are      *)
(* TicksPerSecond ticks in a second, so that datetime.now(UTC) can carry a *)
(* sub-second part, which jwt.encode drops from "exp" and "iat".           *)
(***************************************************************************)
EXTENDS Integers, Sequences, FiniteSets, TLC

VARIABLES
    users,      \* the identity_user table: user id -> row
    now,        \* the clock, in ticks since the epoch
    issued,     \* history: every token the service returned, for whom and when
    ticks,      \* number of clock advances so far (bounds the exploration)
    resp,       \* the operation that led to this state, its inputs and outcome
    registered, \* history: user id -> the (email, password) register_user accepted
    requests    \* the call each client process has in flight

vars == <<users, now, issued, ticks, resp, registered, requests>>

-----------------------------------------------------------------------------
(* Bounds of the exploration *)

MaxUsers == 2
MaxTokens == 3
MaxTicks == 2
TicksPerSecond == 2
MaxProcs == 2

(* Program constants: timedelta(hours=1), timedelta(days=7), in seconds;   *)
(* MinimumLengthValidator's default min_length.                            *)
AccessTokenLifetime == 3600
RefreshTokenLifetime == 604800
MinPasswordLength == 8

-----------------------------------------------------------------------------
(* Strings *)

LowerChar(c) ==
    CASE c = "A" -> "a"
      [] c = "B" -> "b"
      [] c = "X" -> "x"
      [] OTHER -> c

\* str.lower()
Lower(s) == [i \in 1..Len(s) |-> LowerChar(s[i])]

RECURSIVE LStrip(_)
LStrip(s) == IF s # <<>> /\ Head(s) = " " THEN LStrip(Tail(s)) ELSE s

RECURSIVE RStrip(_)
RStrip(s) ==
    IF s # <<>> /\ s[Len(s)] = " " THEN RStrip(SubSeq(s, 1, Len(s) - 1)) ELSE s

\* str.strip()
Strip(s) == RStrip(LStrip(s))

\* the expression  email.lower().strip()  of authenticate_user and register_user
LowerStrip(s) == Strip(Lower(s))

\* str.isdigit()
IsDigit(s) == s # <<>> /\ \A i \in 1..Len(s) : s[i] \in {"0", "1", "2", "3", "4", "5", "6", "7", "8", "9"}

\* position of the last "@" of s, 0 when there is none (str.rsplit("@", 1))
LastAt(s) ==
    IF \E i \in 1..Len(s) : s[i] = "@"
    THEN CHOOSE i \in 1..Len(s) : s[i] = "@" /\ \A j \in (i + 1)..Len(s) : s[j] # "@"
    ELSE 0

\* BaseUserManager.normalize_email: lowercase the domain part
normalize_email(email) ==
    LET e == Strip(email)
        k == LastAt(e)
    IN  IF k = 0 THEN email
        ELSE SubSeq(e, 1, k) \o Lower(SubSeq(e, k + 1, Len(e)))

-----------------------------------------------------------------------------
(* Inputs *)

NoUser == 0
None == "None"

\* what uuid.uuid4 can return; a row keeps the id it was created with
Ids == 1..MaxUsers

EmailA == <<"a", "@", "x">>
EmailAVariant == <<" ", "A", "@", "X", " ">>
EmailB == <<"b", "@", "x">>
Blank == <<" ">>
Empty == <<>>

Emails == {EmailA, EmailAVariant, EmailB, Blank, Empty}

PwA == <<"k", "7", "#", "v", "z", "t", "9", "x">>
PwB == <<"m", "2", "!", "q", "w", "p", "4", "r">>
PwShort == <<"1", "2", "3">>
PwSeven == <<"k", "7", "#", "v", "z", "t", "9">>
PwNumeric == <<"4", "9", "2", "0", "1", "8", "3", "7">>
PwCommon == <<"P", "a", "s", "s", "w", "o", "r", "d">>

RegisterPasswords == {PwA, PwB, PwShort, PwSeven, PwNumeric, PwCommon, Empty}
LoginPasswords == {PwA, PwB, Empty}
IpAddresses == {None, "10.0.0.1"}

\* client processes, whose calls can interleave
Procs == 1..MaxProcs

\* an optional argument: Nothing for None, Some(v) for a given value
Nothing == {}
Some(v) == {v}
TheValue(opt) == CHOOSE v \in opt : TRUE

Ann == <<"A", "n", "n">>
Lee == <<"L", "e", "e">>

\* the entries of CommonPasswordValidator's list that the inputs can hit
CommonPasswords == {<<"p", "a", "s", "s", "w", "o", "r", "d">>}

\* the salts make_password can draw (no operation reads the salt except
\* check_password, which reads the stored one)
Salts == {"s1"}

\* settings.JWT_SECRET_KEY, and a key the service does not hold
SecretKey == "secret"
OtherKey == "other"

-----------------------------------------------------------------------------
(* django.contrib.auth.hashers, as used by set_password and check_password *)

Pbkdf2(password, salt) == <<"pbkdf2_sha256", salt, password>>

make_password(password, salt) == [salt |-> salt, hash |-> Pbkdf2(password, salt)]

check_password(password, encoded) == encoded.hash = Pbkdf2(password, encoded.salt)

-----------------------------------------------------------------------------
(* django.contrib.auth.password_validation.validate_password with the      *)
(* validators of AUTH_PASSWORD_VALIDATORS; the result is the set of error  *)
(* codes, empty when the password passes.  register_user passes no user,   *)
(* and UserAttributeSimilarityValidator returns at once without one.       *)

\* a length validator that accepts every length (a faulty variant)
MinimumLengthValidatorOff(password) == {}

MinimumLengthValidator(password) ==
    IF Len(password) < MinPasswordLength THEN {"password_too_short"} ELSE {}

CommonPasswordValidator(password) ==
    IF LowerStrip(password) \in CommonPasswords THEN {"password_too_common"} ELSE {}

NumericPasswordValidator(password) ==
    IF IsDigit(password) THEN {"password_entirely_numeric"} ELSE {}

validate_password(password) ==
    MinimumLengthValidator(password)
        \cup CommonPasswordValidator(password)
        \cup NumericPasswordValidator(password)

\* re.split(r"\W+", value): the maximal runs of word characters of s (the
\* empty string where s begins or ends with another character)
WordChar(c) == c \notin {"@", " ", ".", "#", "!"}

RECURSIVE Split(_, _)
Split(s, cur) ==
    IF s = <<>> THEN {cur}
    ELSE IF WordChar(Head(s)) THEN Split(Tail(s), Append(cur, Head(s)))
    ELSE IF Len(s) > 1 /\ ~WordChar(s[2]) THEN Split(Tail(s), cur)
    ELSE {cur} \cup Split(Tail(s), <<>>)

Count(s, c) == Cardinality({i \in 1..Len(s) : s[i] = c})

Min(a, b) == IF a < b THEN a ELSE b

RECURSIVE SumMatches(_, _, _)
SumMatches(a, b, chars) ==
    IF chars = {} THEN 0
    ELSE LET c == CHOOSE x \in chars : TRUE
         IN  Min(Count(a, c), Count(b, c)) + SumMatches(a, b, chars \ {c})

\* difflib.SequenceMatcher(a=a, b=b).quick_ratio() >= 0.7
QuickRatioSimilar(a, b) ==
    IF Len(a) + Len(b) = 0 THEN TRUE
    ELSE 20 * SumMatches(a, b, {b[i] : i \in 1..Len(b)}) >= 7 * (Len(a) + Len(b))

\* password_validation.exceeds_maximum_length_ratio(password, 0.7, value)
exceeds_maximum_length_ratio(password, value) ==
    /\ Len(password) >= 10 * Len(value)
    /\ 20 * Len(value) < 7 * Len(password)

\* UserAttributeSimilarityValidator.validate(password, user) for the row
\* `user`: username, first_name, last_name and email are compared
UserAttributeSimilarityValidator(password, user) ==
    LET pw == Lower(password)
        values == {user.username, user.first_name, user.last_name, user.email} \ {Empty}
        parts == UNION {Split(Lower(v), <<>>) \cup {Lower(v)} : v \in values}
    IN  IF \E part \in parts :
               /\ ~exceeds_maximum_length_ratio(pw, part)
               /\ QuickRatioSimilar(pw, part)
        THEN {"password_too_similar"}
        ELSE {}

\* validate_password(password, user), as change_password calls it
validate_password_for(password, user) ==
    UserAttributeSimilarityValidator(password, user) \cup validate_password(password)

-----------------------------------------------------------------------------
(* The identity_user table *)

\* User.objects.filter(email=email).exists()
EmailExists(table, email) == \E id \in DOMAIN table : table[id].email = email

\* a table without unique constraints (a faulty variant)
UniqueViolationOff(table, row) == FALSE

\* the unique constraints of identity_user (email, username) refuse the row
UniqueViolation(table, row) ==
    \E id \in DOMAIN table :
        table[id].email = row.email \/ table[id].username = row.username

\* BaseUserManager.get_by_natural_key: the row whose USERNAME_FIELD (email)
\* equals username, NoUser when there is none
get_by_natural_key(table, username) ==
    IF \E id \in DOMAIN table : table[id].email = username
    THEN CHOOSE id \in DOMAIN table : table[id].email = username
    ELSE NoUser

\* str(user.id) and the parse that User.objects.get(id=...) applies to it
StrUuid(id) == <<"uuid", id>>
ParseUuid(s) == s[2]

\* create_user_with_profile with the password assigned to the field as
\* given, in place of set_password (a faulty variant)
NewUserPlain(email, password, first_name, last_name, salt, t) ==
    [ email |-> normalize_email(email),
      username |-> normalize_email(email),
      password |-> [salt |-> salt, hash |-> password],
      first_name |-> first_name,
      last_name |-> last_name,
      email_verified |-> FALSE,
      is_active |-> TRUE,
      is_staff |-> FALSE,
      is_superuser |-> FALSE,
      avatar_url |-> None,
      last_login_ip |-> None,
      created_at |-> t,
      updated_at |-> t ]

\* create_user_with_profile without username=email: the username keeps
\* the field's default (a faulty variant)
NewUserNoUsername(email, password, first_name, last_name, salt, t) ==
    [ email |-> normalize_email(email),
      username |-> Empty,
      password |-> make_password(password, salt),
      first_name |-> first_name,
      last_name |-> last_name,
      email_verified |-> FALSE,
      is_active |-> TRUE,
      is_staff |-> FALSE,
      is_superuser |-> FALSE,
      avatar_url |-> None,
      last_login_ip |-> None,
      created_at |-> t,
      updated_at |-> t ]

\* the row that UserManager.create_user_with_profile saves
NewUser(email, password, first_name, last_name, salt, t) ==
    [ email |-> normalize_email(email),
      username |-> normalize_email(email),
      password |-> make_password(password, salt),
      first_name |-> first_name,
      last_name |-> last_name,
      email_verified |-> FALSE,
      is_active |-> TRUE,
      is_staff |-> FALSE,
      is_superuser |-> FALSE,
      avatar_url |-> None,
      last_login_ip |-> None,
      created_at |-> t,
      updated_at |-> t ]

\* a backend that returns the active row found by email without checking
\* the password (a faulty variant)
authenticateNoPassword(table, username, password) ==
    LET id == get_by_natural_key(table, username)
    IN  IF id # NoUser /\ table[id].is_active THEN id ELSE NoUser

\* django.contrib.auth.authenticate with the default ModelBackend (the
\* settings name no AUTHENTICATION_BACKENDS): the row found by email whose
\* password checks and which user_can_authenticate lets through, that is,
\* whose is_active is true; NoUser otherwise
authenticate(table, username, password) ==
    LET id == get_by_natural_key(table, username)
    IN  IF id # NoUser
           /\ check_password(password, table[id].password)
           /\ table[id].is_active
        THEN id
        ELSE NoUser

-----------------------------------------------------------------------------
(* Token Codec: jwt.encode / jwt.decode (PyJWT, HS256)                     *)

\* calendar.timegm(dt.utctimetuple()): whole seconds, the sub-second part dropped
Timegm(t) == t \div TicksPerSecond

\* timedelta -> ticks
Ticks(seconds) == seconds * TicksPerSecond

HS256(payload, key) == <<"HMAC-SHA256", key, payload>>

\* jwt.encode(payload, key, algorithm="HS256"): the datetime claims become
\* integer seconds, then header.payload is signed
jwt_encode(payload, key) ==
    LET p == [payload EXCEPT !.exp = Timegm(@), !.iat = Timegm(@)]
    IN  [segments |-> 3, alg |-> "HS256", payload |-> p, signature |-> HS256(p, key)]

NoPayload == [type |-> "none"]
NoToken == [segments |-> 0]

\* a string that is no JWT, such as "invalid_token"
Malformed == [segments |-> 1]

\* Faulty decoders, used to test that the token properties depend on the
\* decoder: one that lets a token live through the instant of its expiry,
\* one that does not verify the signature, one whose expiry comparison is
\* inverted.
jwt_decodeInclusive(token, key, t) ==
    IF token.segments # 3
    THEN [exc |-> "DecodeError", payload |-> NoPayload]
    ELSE IF token.alg # "HS256"
    THEN [exc |-> "InvalidAlgorithmError", payload |-> NoPayload]
    ELSE IF token.signature # HS256(token.payload, key)
    THEN [exc |-> "InvalidSignatureError", payload |-> NoPayload]
    ELSE IF Ticks(token.payload.exp) < t
    THEN [exc |-> "ExpiredSignatureError", payload |-> NoPayload]
    ELSE [exc |-> "", payload |-> token.payload]

jwt_decodeUnverified(token, key, t) ==
    IF token.segments # 3
    THEN [exc |-> "DecodeError", payload |-> NoPayload]
    ELSE IF Ticks(token.payload.exp) <= t
    THEN [exc |-> "ExpiredSignatureError", payload |-> NoPayload]
    ELSE [exc |-> "", payload |-> token.payload]

jwt_decodeInverted(token, key, t) ==
    IF token.segments # 3
    THEN [exc |-> "DecodeError", payload |-> NoPayload]
    ELSE IF token.alg # "HS256"
    THEN [exc |-> "InvalidAlgorithmError", payload |-> NoPayload]
    ELSE IF token.signature # HS256(token.payload, key)
    THEN [exc |-> "InvalidSignatureError", payload |-> NoPayload]
    ELSE IF Ticks(token.payload.exp) >= t
    THEN [exc |-> "ExpiredSignatureError", payload |-> NoPayload]
    ELSE [exc |-> "", payload |-> token.payload]

\* jwt.decode(token, key, algorithms=["HS256"]) at time t: the exception it
\* raises ("" for none) and the payload it returns.  The signature is
\* verified before the claims; "exp" is expired when exp <= now.
jwt_decode(token, key, t) ==
    IF token.segments # 3
    THEN [exc |-> "DecodeError", payload |-> NoPayload]
    ELSE IF token.alg # "HS256"
    THEN [exc |-> "InvalidAlgorithmError", payload |-> NoPayload]
    ELSE IF token.signature # HS256(token.payload, key)
    THEN [exc |-> "InvalidSignatureError", payload |-> NoPayload]
    ELSE IF Ticks(token.payload.exp) <= t
    THEN [exc |-> "ExpiredSignatureError", payload |-> NoPayload]
    ELSE [exc |-> "", payload |-> token.payload]

\* a token id drawn afresh at every call, such as a uuid (a faulty variant)
_generate_token_idNonce(user_id, timestamp) ==
    <<"sha256", user_id, timestamp, Cardinality(issued), SecretKey>>

\* AuthService._generate_token_id: sha256 of "user_id:isoformat(now):secret"
_generate_token_id(user_id, timestamp) == <<"sha256", user_id, timestamp, SecretKey>>

\* an access payload labelled as a refresh payload (a faulty variant)
AccessPayloadMislabelled(id, user, t) ==
    [ user_id |-> StrUuid(id),
      email |-> user.email,
      username |-> user.username,
      is_staff |-> user.is_staff,
      is_superuser |-> user.is_superuser,
      email_verified |-> user.email_verified,
      exp |-> t + Ticks(AccessTokenLifetime),
      iat |-> t,
      type |-> "refresh" ]

\* the access-token payload built by create_tokens and refresh_access_token
AccessPayload(id, user, t) ==
    [ user_id |-> StrUuid(id),
      email |-> user.email,
      username |-> user.username,
      is_staff |-> user.is_staff,
      is_superuser |-> user.is_superuser,
      email_verified |-> user.email_verified,
      exp |-> t + Ticks(AccessTokenLifetime),
      iat |-> t,
      type |-> "access" ]

\* a refresh payload given the access token's lifetime (a faulty variant)
RefreshPayloadShortLived(id, user, t) ==
    [ user_id |-> StrUuid(id),
      email |-> user.email,
      exp |-> t + Ticks(AccessTokenLifetime),
      iat |-> t,
      type |-> "refresh",
      jti |-> _generate_token_id(StrUuid(id), t) ]

\* the refresh-token payload built by create_tokens
RefreshPayload(id, user, t) ==
    [ user_id |-> StrUuid(id),
      email |-> user.email,
      exp |-> t + Ticks(RefreshTokenLifetime),
      iat |-> t,
      type |-> "refresh",
      jti |-> _generate_token_id(StrUuid(id), t) ]

\* the value create_tokens returns for the row `user` with key id at time t
TokenPair(id, user, t) ==
    [ access_token |-> jwt_encode(AccessPayload(id, user, t), SecretKey),
      refresh_token |-> jwt_encode(RefreshPayload(id, user, t), SecretKey),
      token_type |-> "Bearer",
      expires_in |-> AccessTokenLifetime ]

NoTokens == [token_type |-> "none"]

\* validation that does not look at the type claim (a faulty variant)
ValidateTokenAnyType(token, kind, expired, invalid, t) ==
    LET d == jwt_decode(token, SecretKey, t)
    IN  IF d.exc = "ExpiredSignatureError"
        THEN [ok |-> FALSE, msg |-> expired, payload |-> NoPayload]
        ELSE IF d.exc # ""
        THEN [ok |-> FALSE, msg |-> invalid, payload |-> NoPayload]
        ELSE [ok |-> TRUE, msg |-> "", payload |-> d.payload]

\* what validate_access_token / validate_refresh_token do at time t to a
\* token, expecting type `kind`; expired is the message of the
\* ExpiredSignatureError handler and invalid the prefix of the other one
ValidateToken(token, kind, expired, invalid, t) ==
    LET d == jwt_decode(token, SecretKey, t)
    IN  IF d.exc = "ExpiredSignatureError"
        THEN [ok |-> FALSE, msg |-> expired, payload |-> NoPayload]
        ELSE IF d.exc # ""
        THEN [ok |-> FALSE, msg |-> invalid, payload |-> NoPayload]
        ELSE IF d.payload.type # kind
        THEN [ok |-> FALSE, msg |-> "Invalid token type", payload |-> NoPayload]
        ELSE [ok |-> TRUE, msg |-> "", payload |-> d.payload]

ValidateAccess(token, t) ==
    ValidateToken(token, "access", "Token has expired", "Invalid token", t)

ValidateRefresh(token, t) ==
    ValidateToken(token, "refresh", "Refresh token has expired", "Invalid refresh token", t)

\* a lookup that ignores the id and returns a stored user (a faulty variant)
GetUserAny(table, payload) ==
    IF DOMAIN table = {} THEN NoUser ELSE CHOOSE id \in DOMAIN table : TRUE

\* User.objects.get(id=payload["user_id"])
GetUser(table, payload) ==
    IF ParseUuid(payload.user_id) \in DOMAIN table THEN ParseUuid(payload.user_id) ELSE NoUser

-----------------------------------------------------------------------------
(* Tokens a client can present: those the service returned, and what can   *)
(* be made from them without the secret.                                   *)

Resign(token, key) == [token EXCEPT !.signature = HS256(token.payload, key)]

OtherType(kind) == IF kind = "access" THEN "refresh" ELSE "access"

\* the payload altered, the signature kept
TamperType(token) == [token EXCEPT !.payload.type = OtherType(@)]

Unsigned(token) == [token EXCEPT !.alg = "none", !.signature = <<>>]

Forged(token) ==
    {Resign(token, OtherKey), TamperType(token), Unsigned(token)}

\* the record kept of a token returned at time t by operation `by`, under
\* the key `slot` of its result, for user id
Issue(token, slot, id, t, by) ==
    [token |-> token, slot |-> slot, user |-> id, at |-> t, by |-> by]

IssuedTokens == {i.token : i \in issued}

Presentable == IssuedTokens \cup UNION {Forged(tk) : tk \in IssuedTokens} \cup {Malformed}

-----------------------------------------------------------------------------
(* Outcomes *)

Response(op) ==
    [ op |-> op, ok |-> FALSE, status |-> 0, error |-> "", exc |-> "", msg |-> "",
      email |-> Empty, password |-> Empty, ip |-> None, token |-> NoToken,
      user |-> NoUser, payload |-> NoPayload, tokens |-> NoTokens ]

Raise(r, exc, msg) == [r EXCEPT !.exc = exc, !.msg = msg]

\* the clock advances by one tick, by an access lifetime less a tick, or by
\* a refresh lifetime less a tick
Delays == {1, Ticks(AccessTokenLifetime) - 1, Ticks(RefreshTokenLifetime) - 1}

\* the arguments of the API requests that carry a body
NoData ==
    [ first_name |-> Nothing, last_name |-> Nothing, avatar_url |-> Nothing,
      current_password |-> Empty, new_password |-> Empty ]

NoRow == [is_active |-> FALSE]

\* a client's call in flight: the operation, the step it is at, its
\* arguments and what it has read so far
Request(op) ==
    [ op |-> op, pc |-> "start", email |-> Empty, password |-> Empty, token |-> NoToken,
      user |-> NoUser, row |-> NoRow, data |-> NoData ]

\* no call in flight
Idle == [Request("idle") EXCEPT !.pc = "done"]

\* an HTTP answer
Answer(r, status, error, msg) ==
    [r EXCEPT !.ok = (status \in {200, 201}), !.status = status, !.error = error, !.msg = msg]

-----------------------------------------------------------------------------
(* State machine *)

Init ==
    /\ users = <<>>
    /\ now = 0
    /\ issued = {}
    /\ ticks = 0
    /\ resp = Response("init")
    /\ registered = <<>>
    /\ requests = [p \in Procs |-> Idle]

\* time passes
Tick(d) ==
    /\ ticks < MaxTicks
    /\ now' = now + d
    /\ ticks' = ticks + 1
    /\ resp' = Response("tick")
    /\ UNCHANGED <<users, issued, registered, requests>>

\* register_user without line 264: the email is looked up and stored as
\* given (a faulty variant)
register_userRawEmail(email, password, first_name, last_name) ==
    LET r == [Response("register_user") EXCEPT !.email = email, !.password = password]
    IN  /\ IF email = Empty \/ password = Empty
           THEN /\ resp' = Raise(r, "ValidationError", "Email and password are required")
                /\ UNCHANGED <<users, registered>>
           ELSE IF EmailExists(users, email)
           THEN /\ resp' = Raise(r, "ValidationError", "User with this email already exists")
                /\ UNCHANGED <<users, registered>>
           ELSE IF validate_password(password) # {}
           THEN /\ resp' = Raise(r, "ValidationError", "Password validation failed")
                /\ UNCHANGED <<users, registered>>
           ELSE \E id \in Ids \ DOMAIN users, salt \in Salts :
                /\ users' = users @@ (id :> NewUser(email, password, first_name, last_name, salt, now))
                /\ registered' = registered @@ (id :> [email |-> email, password |-> password])
                /\ resp' = [r EXCEPT !.ok = TRUE, !.user = id]
        /\ UNCHANGED <<now, issued, ticks, requests>>

\* AuthService.register_user(email, password, first_name, last_name); the
\* new row gets the id uuid4 draws and the salt make_password draws
register_user(email, password, first_name, last_name) ==
    LET r == [Response("register_user") EXCEPT !.email = email, !.password = password]
        e == LowerStrip(email)
    IN  /\ IF email = Empty \/ password = Empty
           THEN /\ resp' = Raise(r, "ValidationError", "Email and password are required")
                /\ UNCHANGED <<users, registered>>
           ELSE IF EmailExists(users, e)
           THEN /\ resp' = Raise(r, "ValidationError", "User with this email already exists")
                /\ UNCHANGED <<users, registered>>
           ELSE IF validate_password(password) # {}
           THEN /\ resp' = Raise(r, "ValidationError", "Password validation failed")
                /\ UNCHANGED <<users, registered>>
           ELSE IF e = Empty
           THEN \* create_user_with_profile raises ValueError, wrapped at line 283
                /\ resp' = Raise(r, "AuthenticationError", "Failed to create user")
                /\ UNCHANGED <<users, registered>>
           ELSE \E id \in Ids \ DOMAIN users, salt \in Salts :
                /\ users' = users @@ (id :> NewUser(e, password, first_name, last_name, salt, now))
                /\ registered' = registered @@ (id :> [email |-> email, password |-> password])
                /\ resp' = [r EXCEPT !.ok = TRUE, !.user = id]
        /\ UNCHANGED <<now, issued, ticks, requests>>

\* authenticate_user whose update_last_login_ip saves last_login_ip only,
\* leaving updated_at as it was (a faulty variant)
authenticate_userStaleTimestamp(email, password, ip_address) ==
    LET r == [Response("authenticate_user") EXCEPT
                  !.email = email, !.password = password, !.ip = ip_address]
        e == LowerStrip(email)
        id == authenticate(users, e, password)
    IN  /\ IF email = Empty \/ password = Empty
           THEN /\ resp' = Raise(r, "AuthenticationError", "Email and password are required")
                /\ UNCHANGED users
           ELSE IF id = NoUser
           THEN /\ resp' = Raise(r, "AuthenticationError", "Invalid email or password")
                /\ UNCHANGED users
           ELSE /\ users' = IF ip_address # None
                            THEN [users EXCEPT ![id].last_login_ip = ip_address]
                            ELSE users
                /\ resp' = [r EXCEPT !.ok = TRUE, !.user = id]
        /\ UNCHANGED <<now, issued, ticks, registered, requests>>

\* AuthService.authenticate_user(email, password, ip_address)
authenticate_user(email, password, ip_address) ==
    LET r == [Response("authenticate_user") EXCEPT
                  !.email = email, !.password = password, !.ip = ip_address]
        e == LowerStrip(email)
        id == authenticate(users, e, password)
    IN  /\ IF email = Empty \/ password = Empty
           THEN /\ resp' = Raise(r, "AuthenticationError", "Email and password are required")
                /\ UNCHANGED users
           ELSE IF id = NoUser
           THEN /\ resp' = Raise(r, "AuthenticationError", "Invalid email or password")
                /\ UNCHANGED users
           ELSE IF ~users[id].is_active
           THEN /\ resp' = Raise(r, "AuthenticationError", "User account is deactivated")
                /\ UNCHANGED users
           ELSE /\ users' = IF ip_address # None
                            THEN [users EXCEPT ![id].last_login_ip = ip_address,
                                               ![id].updated_at = now]
                            ELSE users
                /\ resp' = [r EXCEPT !.ok = TRUE, !.user = id]
        /\ UNCHANGED <<now, issued, ticks, registered, requests>>

\* AuthService.create_tokens(user), for a stored user
create_tokens(id) ==
    LET pair == TokenPair(id, users[id], now)
        new == {Issue(pair.access_token, "access_token", id, now, "create_tokens"),
                Issue(pair.refresh_token, "refresh_token", id, now, "create_tokens")}
    IN  /\ id \in DOMAIN users
        /\ Cardinality({i.token : i \in issued \cup new}) <= MaxTokens
        /\ issued' = issued \cup new
        /\ resp' = [Response("create_tokens") EXCEPT !.ok = TRUE, !.user = id, !.tokens = pair]
        /\ UNCHANGED <<users, now, ticks, registered, requests>>

\* validate_access_token that also compares the token with the stored user
\* and refuses a token whose email_verified claim is out of date (a faulty
\* variant)
validate_access_tokenStateful(token) ==
    LET v == ValidateAccess(token, now)
        r == [Response("validate_access_token") EXCEPT !.token = token]
        id == GetUser(users, v.payload)
    IN  /\ resp' = IF ~v.ok THEN Raise(r, "TokenError", v.msg)
                   ELSE IF id = NoUser \/ users[id].email_verified # v.payload.email_verified
                   THEN Raise(r, "TokenError", "Invalid token")
                   ELSE [r EXCEPT !.ok = TRUE, !.payload = v.payload]
        /\ UNCHANGED <<users, now, issued, ticks, registered, requests>>

\* AuthService.validate_access_token(token)
validate_access_token(token) ==
    LET v == ValidateAccess(token, now)
        r == [Response("validate_access_token") EXCEPT !.token = token]
    IN  /\ resp' = IF v.ok THEN [r EXCEPT !.ok = TRUE, !.payload = v.payload]
                           ELSE Raise(r, "TokenError", v.msg)
        /\ UNCHANGED <<users, now, issued, ticks, registered, requests>>

\* AuthService.validate_refresh_token(token)
validate_refresh_token(token) ==
    LET v == ValidateRefresh(token, now)
        r == [Response("validate_refresh_token") EXCEPT !.token = token]
    IN  /\ resp' = IF v.ok THEN [r EXCEPT !.ok = TRUE, !.payload = v.payload]
                           ELSE Raise(r, "TokenError", v.msg)
        /\ UNCHANGED <<users, now, issued, ticks, registered, requests>>

\* refresh_access_token that rotates: it answers with a new refresh token
\* as well (a faulty variant)
refresh_access_tokenRotating(refresh_token) ==
    LET v == ValidateRefresh(refresh_token, now)
        r == [Response("refresh_access_token") EXCEPT !.token = refresh_token]
        id == GetUser(users, v.payload)
        pair == TokenPair(id, users[id], now)
        new == Issue(pair.access_token, "access_token", id, now, "refresh_access_token")
    IN  /\ IF ~v.ok
           THEN /\ resp' = Raise(r, "TokenError", v.msg)
                /\ UNCHANGED issued
           ELSE IF id = NoUser
           THEN /\ resp' = Raise(r, "AuthenticationError", "User not found")
                /\ UNCHANGED issued
           ELSE IF ~users[id].is_active
           THEN /\ resp' = Raise(r, "AuthenticationError", "User account is deactivated")
                /\ UNCHANGED issued
           ELSE /\ Cardinality({i.token : i \in issued \cup {new}}) <= MaxTokens
                /\ issued' = issued \cup {new}
                /\ resp' = [r EXCEPT !.ok = TRUE, !.user = id, !.tokens = pair]
        /\ UNCHANGED <<users, now, ticks, registered, requests>>

\* refresh_access_token that fills the access token from the claims of the
\* refresh token, which carry the email only, in place of the stored user
\* (a faulty variant)
refresh_access_tokenFromClaims(refresh_token) ==
    LET v == ValidateRefresh(refresh_token, now)
        r == [Response("refresh_access_token") EXCEPT !.token = refresh_token]
        id == GetUser(users, v.payload)
        claimed == [users[id] EXCEPT !.email = v.payload.email, !.email_verified = FALSE]
        access == jwt_encode(AccessPayload(id, claimed, now), SecretKey)
        new == Issue(access, "access_token", id, now, "refresh_access_token")
    IN  /\ IF ~v.ok
           THEN /\ resp' = Raise(r, "TokenError", v.msg)
                /\ UNCHANGED issued
           ELSE IF id = NoUser
           THEN /\ resp' = Raise(r, "AuthenticationError", "User not found")
                /\ UNCHANGED issued
           ELSE IF ~users[id].is_active
           THEN /\ resp' = Raise(r, "AuthenticationError", "User account is deactivated")
                /\ UNCHANGED issued
           ELSE /\ Cardinality({i.token : i \in issued \cup {new}}) <= MaxTokens
                /\ issued' = issued \cup {new}
                /\ resp' = [r EXCEPT !.ok = TRUE, !.user = id,
                                     !.tokens = [ access_token |-> access,
                                                  token_type |-> "Bearer",
                                                  expires_in |-> AccessTokenLifetime ]]
        /\ UNCHANGED <<users, now, ticks, registered, requests>>

\* refresh_access_token that loads the user named in the token before it
\* validates the token (a faulty variant)
refresh_access_tokenLookupFirst(refresh_token) ==
    LET v == ValidateRefresh(refresh_token, now)
        r == [Response("refresh_access_token") EXCEPT !.token = refresh_token]
        id == GetUser(users, refresh_token.payload)
        access == jwt_encode(AccessPayload(id, users[id], now), SecretKey)
        new == Issue(access, "access_token", id, now, "refresh_access_token")
    IN  /\ IF refresh_token.segments = 3 /\ id = NoUser
           THEN /\ resp' = Raise(r, "AuthenticationError", "User not found")
                /\ UNCHANGED issued
           ELSE IF ~v.ok
           THEN /\ resp' = Raise(r, "TokenError", v.msg)
                /\ UNCHANGED issued
           ELSE IF ~users[id].is_active
           THEN /\ resp' = Raise(r, "AuthenticationError", "User account is deactivated")
                /\ UNCHANGED issued
           ELSE /\ Cardinality({i.token : i \in issued \cup {new}}) <= MaxTokens
                /\ issued' = issued \cup {new}
                /\ resp' = [r EXCEPT !.ok = TRUE, !.user = id,
                                     !.tokens = [ access_token |-> access,
                                                  token_type |-> "Bearer",
                                                  expires_in |-> AccessTokenLifetime ]]
        /\ UNCHANGED <<users, now, ticks, registered, requests>>

\* AuthService.refresh_access_token(refresh_token)
refresh_access_token(refresh_token) ==
    LET v == ValidateRefresh(refresh_token, now)
        r == [Response("refresh_access_token") EXCEPT !.token = refresh_token]
        id == GetUser(users, v.payload)
        access == jwt_encode(AccessPayload(id, users[id], now), SecretKey)
        new == Issue(access, "access_token", id, now, "refresh_access_token")
    IN  /\ IF ~v.ok
           THEN /\ resp' = Raise(r, "TokenError", v.msg)
                /\ UNCHANGED issued
           ELSE IF id = NoUser
           THEN /\ resp' = Raise(r, "AuthenticationError", "User not found")
                /\ UNCHANGED issued
           ELSE IF ~users[id].is_active
           THEN /\ resp' = Raise(r, "AuthenticationError", "User account is deactivated")
                /\ UNCHANGED issued
           ELSE /\ Cardinality({i.token : i \in issued \cup {new}}) <= MaxTokens
                /\ issued' = issued \cup {new}
                /\ resp' = [r EXCEPT !.ok = TRUE, !.user = id,
                                     !.tokens = [ access_token |-> access,
                                                  token_type |-> "Bearer",
                                                  expires_in |-> AccessTokenLifetime ]]
        /\ UNCHANGED <<users, now, ticks, registered, requests>>

\* get_user_from_token without the is_active check (a faulty variant)
get_user_from_tokenUnchecked(token) ==
    LET v == ValidateAccess(token, now)
        r == [Response("get_user_from_token") EXCEPT !.token = token]
        id == GetUser(users, v.payload)
    IN  /\ resp' = IF ~v.ok THEN Raise(r, "TokenError", v.msg)
                   ELSE IF id = NoUser
                   THEN Raise(r, "AuthenticationError", "User not found")
                   ELSE [r EXCEPT !.ok = TRUE, !.user = id]
        /\ UNCHANGED <<users, now, issued, ticks, registered, requests>>

\* AuthService.get_user_from_token(token)
get_user_from_token(token) ==
    LET v == ValidateAccess(token, now)
        r == [Response("get_user_from_token") EXCEPT !.token = token]
        id == GetUser(users, v.payload)
    IN  /\ resp' = IF ~v.ok THEN Raise(r, "TokenError", v.msg)
                   ELSE IF id = NoUser
                   THEN Raise(r, "AuthenticationError", "User not found")
                   ELSE IF ~users[id].is_active
                   THEN Raise(r, "AuthenticationError", "User account is deactivated")
                   ELSE [r EXCEPT !.ok = TRUE, !.user = id]
        /\ UNCHANGED <<users, now, issued, ticks, registered, requests>>

\* UserAdmin.deactivate_users: queryset.update(is_active=False)
deactivate_users(queryset) ==
    /\ queryset # {} /\ queryset \subseteq DOMAIN users
    /\ users' = [id \in DOMAIN users |->
                    IF id \in queryset THEN [users[id] EXCEPT !.is_active = FALSE]
                    ELSE users[id]]
    /\ resp' = Response("deactivate_users")
    /\ UNCHANGED <<now, issued, ticks, registered, requests>>

\* UserAdmin.activate_users: queryset.update(is_active=True)
activate_users(queryset) ==
    /\ queryset # {} /\ queryset \subseteq DOMAIN users
    /\ users' = [id \in DOMAIN users |->
                    IF id \in queryset THEN [users[id] EXCEPT !.is_active = TRUE]
                    ELSE users[id]]
    /\ resp' = Response("activate_users")
    /\ UNCHANGED <<now, issued, ticks, registered, requests>>

\* UserAdmin.verify_emails: queryset.update(email_verified=True).  Like the
\* two actions above it is a single UPDATE of the named column: no save()
\* runs, so the auto_now of updated_at does not apply.
verify_emails(queryset) ==
    /\ queryset # {} /\ queryset \subseteq DOMAIN users
    /\ users' = [id \in DOMAIN users |->
                    IF id \in queryset THEN [users[id] EXCEPT !.email_verified = TRUE]
                    ELSE users[id]]
    /\ resp' = Response("verify_emails")
    /\ UNCHANGED <<now, issued, ticks, registered, requests>>

\* the admin's "delete selected users" action, which ModelAdmin gives every
\* registered model: queryset.delete()
delete_selected(queryset) ==
    /\ queryset # {} /\ queryset \subseteq DOMAIN users
    /\ users' = [id \in DOMAIN users \ queryset |-> users[id]]
    /\ resp' = Response("delete_selected")
    /\ UNCHANGED <<now, issued, ticks, registered, requests>>

-----------------------------------------------------------------------------
(* Calls in flight.  A client process p runs one call at a time; a call     *)
(* that reads the table and writes it later is two steps, and the steps of  *)
(* different processes interleave.                                          *)

\* AuthService.register_user, lines 260-271: the checks made before the
\* row is created, the exists() query among them
register_check(p, email, password) ==
    LET r == [Response("register_user") EXCEPT !.email = email, !.password = password]
        q == [Request("register_user") EXCEPT !.email = email, !.password = password]
        e == LowerStrip(email)
        failed(x) == /\ resp' = x
                     /\ requests' = [requests EXCEPT ![p] = Idle]
    IN  /\ requests[p].pc = "done"
        /\ IF email = Empty \/ password = Empty
           THEN failed(Raise(r, "ValidationError", "Email and password are required"))
           ELSE IF EmailExists(users, e)
           THEN failed(Raise(r, "ValidationError", "User with this email already exists"))
           ELSE IF validate_password(password) # {}
           THEN failed(Raise(r, "ValidationError", "Password validation failed"))
           ELSE /\ resp' = [r EXCEPT !.op = "register_check"]
                /\ requests' = [requests EXCEPT ![p] = [q EXCEPT !.pc = "create"]]
        /\ UNCHANGED <<users, now, issued, ticks, registered>>

\* AuthService.register_user, lines 273-283: create_user_with_profile and
\* the handler that wraps whatever it raises.  save() is an INSERT, which
\* the unique constraints of the table can refuse (IntegrityError).
register_create(p) ==
    LET q == requests[p]
        r == [Response("register_user") EXCEPT !.email = q.email, !.password = q.password]
        e == LowerStrip(q.email)
        failed(x) == /\ resp' = x
                     /\ requests' = [requests EXCEPT ![p] = Idle]
                     /\ UNCHANGED <<users, registered>>
    IN  /\ q.op = "register_user" /\ q.pc = "create"
        /\ IF e = Empty
           THEN failed(Raise(r, "AuthenticationError", "Failed to create user"))
           ELSE \E salt \in Salts :
                LET row == NewUser(e, q.password, Empty, Empty, salt, now)
                IN  IF UniqueViolation(users, row)
                    THEN failed(Raise(r, "AuthenticationError", "Failed to create user"))
                    ELSE \E id \in Ids \ DOMAIN users :
                         /\ users' = users @@ (id :> row)
                         /\ registered' = registered
                                @@ (id :> [email |-> q.email, password |-> q.password])
                         /\ resp' = [r EXCEPT !.ok = TRUE, !.user = id]
                         /\ requests' = [requests EXCEPT ![p] = Idle]
        /\ UNCHANGED <<now, issued, ticks>>

\* JWTAuth.authenticate over a get_user_from_token that does not look at
\* is_active (a faulty variant)
JWTAuthAnyUser(token) ==
    LET v == ValidateAccess(token, now)
    IN  IF ~v.ok THEN NoUser ELSE GetUser(users, v.payload)

\* JWTAuth.authenticate(request, token): the user get_user_from_token
\* returns, NoUser where it raises TokenError or AuthenticationError
JWTAuth(token) ==
    LET v == ValidateAccess(token, now)
    IN  IF ~v.ok THEN NoUser
        ELSE IF GetUser(users, v.payload) = NoUser THEN NoUser
        ELSE IF ~users[GetUser(users, v.payload)].is_active THEN NoUser
        ELSE GetUser(users, v.payload)

\* a request to a protected endpoint arrives with a bearer token: jwt_auth
\* either refuses it (401, the handler does not run) or loads the user's
\* row into request.user
jwt_auth(p, op, token, data) ==
    LET id == JWTAuth(token)
        r == [Response(op) EXCEPT !.token = token]
        q == [Request(op) EXCEPT !.token = token, !.data = data]
    IN  /\ requests[p].pc = "done"
        /\ IF id = NoUser
           THEN /\ resp' = Answer(r, 401, "Unauthorized", "")
                /\ requests' = [requests EXCEPT ![p] = Idle]
           ELSE /\ resp' = [r EXCEPT !.op = "jwt_auth", !.user = id]
                /\ requests' = [requests EXCEPT
                       ![p] = [q EXCEPT !.pc = "handler", !.user = id, !.row = users[id]]]
        /\ UNCHANGED <<users, now, issued, ticks, registered>>

\* the handler of p's request is the one named op, and is about to run
InHandler(p, op) == requests[p].op = op /\ requests[p].pc = "handler"

\* what a handler's answer x leaves behind
Answered(p, x) ==
    /\ resp' = x
    /\ requests' = [requests EXCEPT ![p] = Idle]

\* Model.save(update_fields=...) of a row that is no longer stored updates
\* no row and raises DatabaseError, which each handler's 'except Exception'
\* answers with 400
RowGone(id) == id \notin DOMAIN users

NoRowsAffected == "Save with update_fields did not affect any rows."

\* the handler get_current_user: request.user as it was loaded
get_current_user(p) ==
    LET q == requests[p]
        r == [Response("get_current_user") EXCEPT !.token = q.token, !.user = q.user]
    IN  /\ InHandler(p, "get_current_user")
        /\ Answered(p, Answer(r, 200, "", ""))
        /\ UNCHANGED <<users, now, issued, ticks, registered>>

\* verify_email without the email_verified test of lines 237-241 (a faulty
\* variant)
verify_emailUnchecked(p) ==
    LET q == requests[p]
        r == [Response("verify_email") EXCEPT !.token = q.token, !.user = q.user]
    IN  /\ InHandler(p, "verify_email")
        /\ users' = [users EXCEPT ![q.user].email_verified = TRUE,
                                  ![q.user].updated_at = now]
        /\ Answered(p, Answer(r, 200, "", "Email verified successfully"))
        /\ UNCHANGED <<now, issued, ticks, registered>>

\* the handler verify_email of auth_endpoints.py, with User.verify_email:
\* save(update_fields=["email_verified", "updated_at"])
verify_email(p) ==
    LET q == requests[p]
        r == [Response("verify_email") EXCEPT !.token = q.token, !.user = q.user]
    IN  /\ InHandler(p, "verify_email")
        /\ IF q.row.email_verified
           THEN /\ Answered(p, Answer(r, 400, "already_verified", "Email is already verified"))
                /\ UNCHANGED users
           ELSE IF RowGone(q.user)
           THEN /\ Answered(p, Answer(r, 400, "verification_failed", NoRowsAffected))
                /\ UNCHANGED users
           ELSE /\ users' = [users EXCEPT ![q.user].email_verified = TRUE,
                                          ![q.user].updated_at = now]
                /\ Answered(p, Answer(r, 200, "", "Email verified successfully"))
        /\ UNCHANGED <<now, issued, ticks, registered>>

\* update_profile saving with a plain save(), which writes every field of
\* request.user (a faulty variant)
update_profileWholeRow(p) ==
    LET q == requests[p]
        r == [Response("update_profile") EXCEPT !.token = q.token, !.user = q.user]
        first_name == IF q.data.first_name # Nothing
                      THEN TheValue(q.data.first_name) ELSE q.row.first_name
    IN  /\ InHandler(p, "update_profile")
        /\ users' = [users EXCEPT ![q.user] =
                         [q.row EXCEPT !.first_name = first_name, !.updated_at = now]]
        /\ Answered(p, Answer(r, 200, "", ""))
        /\ UNCHANGED <<now, issued, ticks, registered>>

\* the handler update_profile:
\* save(update_fields=["first_name", "last_name", "avatar_url", "updated_at"])
update_profile(p) ==
    LET q == requests[p]
        r == [Response("update_profile") EXCEPT !.token = q.token, !.user = q.user]
        first_name == IF q.data.first_name # Nothing
                      THEN TheValue(q.data.first_name) ELSE q.row.first_name
        last_name == IF q.data.last_name # Nothing
                     THEN TheValue(q.data.last_name) ELSE q.row.last_name
        avatar_url == IF q.data.avatar_url # Nothing
                      THEN TheValue(q.data.avatar_url) ELSE q.row.avatar_url
    IN  /\ InHandler(p, "update_profile")
        /\ IF RowGone(q.user)
           THEN /\ Answered(p, Answer(r, 400, "update_failed", NoRowsAffected))
                /\ UNCHANGED users
           ELSE /\ users' = [users EXCEPT ![q.user].first_name = first_name,
                                          ![q.user].last_name = last_name,
                                          ![q.user].avatar_url = avatar_url,
                                          ![q.user].updated_at = now]
                /\ Answered(p, Answer(r, 200, "", ""))
        /\ UNCHANGED <<now, issued, ticks, registered>>

\* change_password without the check_password test of lines 196-200 (a
\* faulty variant)
change_passwordUnchecked(p) ==
    LET q == requests[p]
        r == [Response("change_password") EXCEPT
                  !.token = q.token, !.user = q.user, !.password = q.data.new_password]
    IN  /\ InHandler(p, "change_password")
        /\ IF validate_password_for(q.data.new_password, q.row) # {}
           THEN /\ Answered(p, Answer(r, 400, "validation_error", "Password validation failed"))
                /\ UNCHANGED <<users, registered>>
           ELSE \E salt \in Salts :
                /\ users' = [users EXCEPT
                       ![q.user].password = make_password(q.data.new_password, salt),
                       ![q.user].updated_at = now]
                /\ registered' = [registered EXCEPT ![q.user].password = q.data.new_password]
                /\ Answered(p, Answer(r, 200, "", "Password changed successfully"))
        /\ UNCHANGED <<now, issued, ticks>>

\* the handler change_password: save(update_fields=["password", "updated_at"])
change_password(p) ==
    LET q == requests[p]
        r == [Response("change_password") EXCEPT
                  !.token = q.token, !.user = q.user, !.password = q.data.new_password]
    IN  /\ InHandler(p, "change_password")
        /\ IF ~check_password(q.data.current_password, q.row.password)
           THEN /\ Answered(p, Answer(r, 400, "invalid_password", "Current password is incorrect"))
                /\ UNCHANGED <<users, registered>>
           ELSE IF validate_password_for(q.data.new_password, q.row) # {}
           THEN /\ Answered(p, Answer(r, 400, "validation_error", "Password validation failed"))
                /\ UNCHANGED <<users, registered>>
           ELSE IF RowGone(q.user)
           THEN /\ Answered(p, Answer(r, 400, "password_change_failed", NoRowsAffected))
                /\ UNCHANGED <<users, registered>>
           ELSE \E salt \in Salts :
                /\ users' = [users EXCEPT
                       ![q.user].password = make_password(q.data.new_password, salt),
                       ![q.user].updated_at = now]
                /\ registered' = [registered EXCEPT ![q.user].password = q.data.new_password]
                /\ Answered(p, Answer(r, 200, "", "Password changed successfully"))
        /\ UNCHANGED <<now, issued, ticks>>

-----------------------------------------------------------------------------
(* The handlers of /login, /register and /refresh.  A handler runs once    *)
(* the request body has passed its schema; it calls the service inside a   *)
(* try block and answers from the except clause that catches what the      *)
(* service raised.  The database is an input: a query made while it is     *)
(* down raises OperationalError, which the service does not catch.         *)

Database == {"up", "down"}

\* pydantic's EmailStr, then the schemas' field_validator of "email": the
\* address trimmed and lowercased; Empty when it is refused (no "@" with
\* something on each side)
EmailStr(s) ==
    LET e == Strip(s)
        k == LastAt(e)
    IN  IF k > 1 /\ k < Len(e) THEN LowerStrip(e) ELSE Empty

\* what authenticate_user raises ("" for nothing) and returns, lines 64-77
authenticate_userOutcome(email, password, db) ==
    LET e == LowerStrip(email)
        id == authenticate(users, e, password)
    IN  IF email = Empty \/ password = Empty
        THEN [exc |-> "AuthenticationError", msg |-> "Email and password are required", user |-> NoUser]
        ELSE IF db = "down"
        THEN [exc |-> "OperationalError", msg |-> "connection failed", user |-> NoUser]
        ELSE IF id = NoUser
        THEN [exc |-> "AuthenticationError", msg |-> "Invalid email or password", user |-> NoUser]
        ELSE IF ~users[id].is_active
        THEN [exc |-> "AuthenticationError", msg |-> "User account is deactivated", user |-> NoUser]
        ELSE [exc |-> "", msg |-> "", user |-> id]

\* the login handler without its last except clause: what is not an
\* AuthenticationError escapes, and the framework answers 500 (a faulty
\* variant)
login_answerNoCatchAll(exc) ==
    IF exc = "" THEN [status |-> 200, error |-> ""]
    ELSE IF exc = "AuthenticationError" THEN [status |-> 401, error |-> "authentication_failed"]
    ELSE [status |-> 500, error |-> "server_error"]

\* the except clauses of login, in their order
login_answer(exc) ==
    IF exc = "" THEN [status |-> 200, error |-> ""]
    ELSE IF exc = "AuthenticationError" THEN [status |-> 401, error |-> "authentication_failed"]
    ELSE [status |-> 400, error |-> "invalid_request"]

\* the except clauses of register
register_answer(exc) ==
    IF exc = "" THEN [status |-> 201, error |-> ""]
    ELSE IF exc = "ValidationError" THEN [status |-> 400, error |-> "validation_error"]
    ELSE IF exc = "AuthenticationError" THEN [status |-> 400, error |-> "registration_failed"]
    ELSE [status |-> 400, error |-> "invalid_request"]

\* the except clauses of refresh_token
refresh_answer(exc) ==
    IF exc = "" THEN [status |-> 200, error |-> ""]
    ELSE IF exc = "TokenError" THEN [status |-> 401, error |-> "invalid_token"]
    ELSE IF exc = "AuthenticationError" THEN [status |-> 401, error |-> "authentication_failed"]
    ELSE [status |-> 400, error |-> "invalid_request"]

\* POST /login: authenticate_user with the client's address, create_tokens
login(email, password, ip, db) ==
    LET data == [email |-> EmailStr(email), password |-> password]
        r == [Response("login") EXCEPT !.email = email, !.password = password, !.ip = ip]
        o == authenticate_userOutcome(data.email, data.password, db)
        a == login_answer(o.exc)
        pair == TokenPair(o.user, users[o.user], now)
        new == {Issue(pair.access_token, "access_token", o.user, now, "create_tokens"),
                Issue(pair.refresh_token, "refresh_token", o.user, now, "create_tokens")}
    IN  /\ data.email # Empty /\ Len(data.password) >= 1
        /\ IF o.exc # ""
           THEN /\ resp' = Answer(Raise(r, o.exc, o.msg), a.status, a.error, o.msg)
                /\ UNCHANGED <<users, issued>>
           ELSE /\ Cardinality({i.token : i \in issued \cup new}) <= MaxTokens
                /\ users' = IF ip # None
                            THEN [users EXCEPT ![o.user].last_login_ip = ip,
                                               ![o.user].updated_at = now]
                            ELSE users
                /\ issued' = issued \cup new
                /\ resp' = Answer([r EXCEPT !.user = o.user, !.tokens = pair],
                                  a.status, a.error, "")
        /\ UNCHANGED <<now, ticks, registered, requests>>

\* what register_user raises ("" for nothing), lines 261-283 (the row is
\* created in the same step, so that no constraint refuses it)
register_userOutcome(email, password, db) ==
    LET e == LowerStrip(email)
    IN  IF email = Empty \/ password = Empty
        THEN [exc |-> "ValidationError", msg |-> "Email and password are required"]
        ELSE IF db = "down"
        THEN [exc |-> "OperationalError", msg |-> "connection failed"]
        ELSE IF EmailExists(users, e)
        THEN [exc |-> "ValidationError", msg |-> "User with this email already exists"]
        ELSE IF validate_password(password) # {}
        THEN [exc |-> "ValidationError", msg |-> "Password validation failed"]
        ELSE IF e = Empty
        THEN [exc |-> "AuthenticationError", msg |-> "Failed to create user"]
        ELSE [exc |-> "", msg |-> ""]

\* POST /register: register_user, create_tokens
register(email, password, db) ==
    LET data == [email |-> EmailStr(email), password |-> password]
        r == [Response("register") EXCEPT !.email = email, !.password = password]
        o == register_userOutcome(data.email, data.password, db)
        a == register_answer(o.exc)
    IN  /\ data.email # Empty /\ Len(data.password) >= MinPasswordLength
        /\ IF o.exc # ""
           THEN /\ resp' = Answer(Raise(r, o.exc, o.msg), a.status, a.error, o.msg)
                /\ UNCHANGED <<users, issued, registered>>
           ELSE \E id \in Ids \ DOMAIN users, salt \in Salts :
                LET row == NewUser(LowerStrip(data.email), data.password, Empty, Empty, salt, now)
                    pair == TokenPair(id, row, now)
                    new == {Issue(pair.access_token, "access_token", id, now, "create_tokens"),
                            Issue(pair.refresh_token, "refresh_token", id, now, "create_tokens")}
                IN  /\ Cardinality({i.token : i \in issued \cup new}) <= MaxTokens
                    /\ users' = users @@ (id :> row)
                    /\ registered' = registered
                           @@ (id :> [email |-> email, password |-> password])
                    /\ issued' = issued \cup new
                    /\ resp' = Answer([r EXCEPT !.user = id, !.tokens = pair],
                                      a.status, a.error, "")
        /\ UNCHANGED <<now, ticks, requests>>

\* what refresh_access_token raises ("" for nothing) and for whom it
\* answers, lines 201-209
refresh_access_tokenOutcome(refresh_token, db) ==
    LET v == ValidateRefresh(refresh_token, now)
        id == GetUser(users, v.payload)
    IN  IF ~v.ok
        THEN [exc |-> "TokenError", msg |-> v.msg, user |-> NoUser]
        ELSE IF db = "down"
        THEN [exc |-> "OperationalError", msg |-> "connection failed", user |-> NoUser]
        ELSE IF id = NoUser
        THEN [exc |-> "AuthenticationError", msg |-> "User not found", user |-> NoUser]
        ELSE IF ~users[id].is_active
        THEN [exc |-> "AuthenticationError", msg |-> "User account is deactivated", user |-> NoUser]
        ELSE [exc |-> "", msg |-> "", user |-> id]

\* POST /refresh: refresh_access_token
refresh_token(token, db) ==
    LET r == [Response("refresh_token") EXCEPT !.token = token]
        o == refresh_access_tokenOutcome(token, db)
        a == refresh_answer(o.exc)
        access == jwt_encode(AccessPayload(o.user, users[o.user], now), SecretKey)
        new == Issue(access, "access_token", o.user, now, "refresh_access_token")
    IN  /\ IF o.exc # ""
           THEN /\ resp' = Answer(Raise(r, o.exc, o.msg), a.status, a.error, o.msg)
                /\ UNCHANGED issued
           ELSE /\ Cardinality({i.token : i \in issued \cup {new}}) <= MaxTokens
                /\ issued' = issued \cup {new}
                /\ resp' = Answer([r EXCEPT !.user = o.user,
                                            !.tokens = [ access_token |-> access,
                                                         token_type |-> "Bearer",
                                                         expires_in |-> AccessTokenLifetime ]],
                                  a.status, a.error, "")
        /\ UNCHANGED <<users, now, ticks, registered, requests>>

-----------------------------------------------------------------------------
(* Accounts: registration, login and the admin's activation switch, from   *)
(* the empty table.                                                        *)

Next ==
    \/ \E email \in Emails, password \in RegisterPasswords :
           register_user(email, password, Empty, Empty)
    \/ \E email \in Emails, password \in LoginPasswords, ip \in IpAddresses :
           authenticate_user(email, password, ip)
    \/ \E queryset \in SUBSET Ids : deactivate_users(queryset)
    \/ \E queryset \in SUBSET Ids : activate_users(queryset)

Spec == Init /\ [][Next]_vars

-----------------------------------------------------------------------------
(* Tokens: issue, validation, refresh and resolution, with time passing,   *)
(* from a table in which two users registered at time 0.                   *)

InitTokens ==
    /\ users = (1 :> NewUser(EmailA, PwA, Empty, Empty, "s1", 0))
                   @@ (2 :> NewUser(EmailB, PwB, Empty, Empty, "s1", 0))
    /\ registered = (1 :> [email |-> EmailA, password |-> PwA])
                        @@ (2 :> [email |-> EmailB, password |-> PwB])
    /\ now = 0
    /\ issued = {}
    /\ ticks = 0
    /\ resp = Response("init")
    /\ requests = [p \in Procs |-> Idle]

NextTokens ==
    \/ \E d \in Delays : Tick(d)
    \/ \E email \in {EmailA, EmailB}, password \in {PwA, PwB} :
           authenticate_user(email, password, None)
    \/ \E id \in DOMAIN users : create_tokens(id)
    \/ \E token \in Presentable : validate_access_token(token)
    \/ \E token \in Presentable : validate_refresh_token(token)
    \/ \E token \in Presentable : refresh_access_token(token)
    \/ \E token \in Presentable : get_user_from_token(token)
    \/ \E id \in DOMAIN users : deactivate_users({id})
    \/ \E id \in DOMAIN users : activate_users({id})

SpecTokens == InitTokens /\ [][NextTokens]_vars

-----------------------------------------------------------------------------
(* The API used by concurrent clients: registration, login and the         *)
(* protected endpoints, their steps interleaved, from a table that holds   *)
(* one user.  The clients register one address in two spellings.           *)

ApiEmails == {EmailA, EmailAVariant}
ApiPasswords == {PwA, PwShort}

\* the bearer tokens presented: the access tokens create_tokens returns
\* now for a stored user, and a string that is no token
Bearers ==
    {TokenPair(id, users[id], now).access_token : id \in DOMAIN users} \cup {Malformed}

ProfileUpdates == {[NoData EXCEPT !.first_name = Some(Ann)]}

PasswordChanges == {[NoData EXCEPT !.current_password = PwA, !.new_password = PwB]}

\* the id of the user stored at the start, which uuid4 does not draw again
FirstUser == MaxUsers + 1

InitApi ==
    /\ users = (FirstUser :> NewUser(EmailB, PwB, Empty, Empty, "s1", 0))
    /\ registered = (FirstUser :> [email |-> EmailB, password |-> PwB])
    /\ now = 0
    /\ issued = {}
    /\ ticks = 0
    /\ resp = Response("init")
    /\ requests = [p \in Procs |-> Idle]

NextApi ==
    \/ \E p \in Procs, email \in ApiEmails, password \in ApiPasswords :
           register_check(p, email, password)
    \/ \E p \in Procs : register_create(p)
    \/ \E password \in {PwA, PwB} : authenticate_user(EmailA, password, None)
    \/ \E p \in Procs, token \in Bearers : jwt_auth(p, "verify_email", token, NoData)
    \/ \E p \in Procs, token \in Bearers, data \in ProfileUpdates :
           jwt_auth(p, "update_profile", token, data)
    \/ \E p \in Procs, token \in Bearers, data \in PasswordChanges :
           jwt_auth(p, "change_password", token, data)
    \/ \E p \in Procs : verify_email(p)
    \/ \E p \in Procs : update_profile(p)
    \/ \E p \in Procs : change_password(p)

SpecApi == InitApi /\ [][NextApi]_vars

-----------------------------------------------------------------------------
(* One account through its life: registration, login, refresh and the      *)
(* protected endpoints, called by concurrent clients, from the empty       *)
(* table.                                                                  *)

\* the refresh tokens create_tokens returns now for a stored user
RefreshTokens ==
    {TokenPair(id, users[id], now).refresh_token : id \in DOMAIN users}

NextAccount ==
    \/ register_user(EmailA, PwA, Empty, Empty)
    \/ \E password \in {PwA, PwB} : authenticate_user(EmailA, password, None)
    \/ \E token \in RefreshTokens : refresh_access_token(token)
    \/ \E p \in Procs, token \in Bearers : jwt_auth(p, "verify_email", token, NoData)
    \/ \E p \in Procs, token \in Bearers, data \in ProfileUpdates :
           jwt_auth(p, "update_profile", token, data)
    \/ \E p \in Procs, token \in Bearers, data \in PasswordChanges :
           jwt_auth(p, "change_password", token, data)
    \/ \E p \in Procs : verify_email(p)
    \/ \E p \in Procs : update_profile(p)
    \/ \E p \in Procs : change_password(p)

SpecAccount == Init /\ [][NextAccount]_vars

-----------------------------------------------------------------------------
(* Login over time: authenticate_user with and without a client address,   *)
(* the clock and the admin's activation switch, from a table in which one  *)
(* user registered at time 0.                                              *)

InitLogin ==
    /\ users = (1 :> NewUser(EmailA, PwA, Empty, Empty, "s1", 0))
    /\ registered = (1 :> [email |-> EmailA, password |-> PwA])
    /\ now = 0
    /\ issued = {}
    /\ ticks = 0
    /\ resp = Response("init")
    /\ requests = [p \in Procs |-> Idle]

NextLogin ==
    \/ Tick(1)
    \/ \E email \in Emails, password \in LoginPasswords, ip \in IpAddresses :
           authenticate_user(email, password, ip)
    \/ \E id \in DOMAIN users : deactivate_users({id})
    \/ \E id \in DOMAIN users : activate_users({id})

SpecLogin == InitLogin /\ [][NextLogin]_vars

-----------------------------------------------------------------------------
(* Tokens through the life of their users: issue, refresh and resolution   *)
(* while time passes and the admin deactivates and deletes, from a table   *)
(* in which two users registered at time 0.                                *)

NextLifecycle ==
    \/ \E d \in Delays : Tick(d)
    \/ \E id \in DOMAIN users : create_tokens(id)
    \/ \E token \in Presentable : refresh_access_token(token)
    \/ \E token \in Presentable : get_user_from_token(token)
    \/ \E id \in DOMAIN users : deactivate_users({id})
    \/ \E id \in DOMAIN users : delete_selected({id})

SpecLifecycle == InitTokens /\ [][NextLifecycle]_vars

-----------------------------------------------------------------------------
(* The API's public endpoints: /register, /login and /refresh, with the    *)
(* database up or down, while the admin deactivates and deletes, from the  *)
(* empty table.                                                            *)

HandlerEmails == {EmailAVariant, EmailB, Blank}
HandlerPasswords == {PwA, PwNumeric}

NextHandlers ==
    \/ \E email \in HandlerEmails, password \in HandlerPasswords, db \in Database :
           register(email, password, db)
    \/ \E email \in HandlerEmails, password \in {PwA, PwB}, ip \in IpAddresses, db \in Database :
           login(email, password, ip, db)
    \/ \E token \in Presentable, db \in Database : refresh_token(token, db)
    \/ \E id \in DOMAIN users : deactivate_users({id})
    \/ \E id \in DOMAIN users : delete_selected({id})

SpecHandlers == Init /\ [][NextHandlers]_vars

-----------------------------------------------------------------------------
(* The protected endpoints called by one client with every bearer it can   *)
(* present, while access tokens expire and the admin deactivates and       *)
(* deletes, from a table in which one user registered at time 0.           *)

\* what arrives in the Authorization header: a token a client can present,
\* or nothing
Authorizations == Presentable \cup {NoToken}

NextGuard ==
    \/ Tick(Ticks(AccessTokenLifetime))
    \/ \E id \in DOMAIN users : create_tokens(id)
    \/ \E id \in DOMAIN users : deactivate_users({id})
    \/ \E id \in DOMAIN users : delete_selected({id})
    \/ \E token \in Authorizations : jwt_auth(1, "get_current_user", token, NoData)
    \/ \E token \in Authorizations : jwt_auth(1, "verify_email", token, NoData)
    \/ \E token \in Authorizations, data \in ProfileUpdates :
           jwt_auth(1, "update_profile", token, data)
    \/ \E token \in Authorizations, data \in PasswordChanges :
           jwt_auth(1, "change_password", token, data)
    \/ get_current_user(1)
    \/ verify_email(1)
    \/ update_profile(1)
    \/ change_password(1)

SpecGuard == InitLogin /\ [][NextGuard]_vars

-----------------------------------------------------------------------------
(* Password changes and logins of one user by concurrent clients, from a   *)
(* table in which the user registered at time 0 with the password PwA.     *)

\* bodies of /change-password that PasswordChangeRequest lets through (the
\* new password has 8 characters or more)
PasswordChangeRequests ==
    { [NoData EXCEPT !.current_password = PwA, !.new_password = PwB],
      [NoData EXCEPT !.current_password = PwB, !.new_password = PwA],
      [NoData EXCEPT !.current_password = PwB, !.new_password = PwNumeric] }

NextPassword ==
    \/ \E password \in {PwA, PwB, PwNumeric} : authenticate_user(EmailA, password, None)
    \/ \E p \in Procs, token \in Bearers, data \in PasswordChangeRequests :
           jwt_auth(p, "change_password", token, data)
    \/ \E p \in Procs : change_password(p)

SpecPassword == InitLogin /\ [][NextPassword]_vars

-----------------------------------------------------------------------------
(* Every operation that writes a user record, over time: login with an     *)
(* address, the protected endpoints called by one client, and the admin's  *)
(* bulk actions, from a table in which one user registered at time 0.      *)

NextAudit ==
    \/ Tick(1)
    \/ \E ip \in IpAddresses : authenticate_user(EmailA, PwA, ip)
    \/ \E token \in Bearers : jwt_auth(1, "verify_email", token, NoData)
    \/ \E token \in Bearers, data \in ProfileUpdates : jwt_auth(1, "update_profile", token, data)
    \/ \E token \in Bearers, data \in PasswordChanges :
           jwt_auth(1, "change_password", token, data)
    \/ verify_email(1)
    \/ update_profile(1)
    \/ change_password(1)
    \/ \E id \in DOMAIN users : verify_emails({id})
    \/ \E id \in DOMAIN users : deactivate_users({id})
    \/ \E id \in DOMAIN users : activate_users({id})

SpecAudit == InitLogin /\ [][NextAudit]_vars

-----------------------------------------------------------------------------
(* Tokens of a user whose record changes: issue and validation while one   *)
(* client verifies the email, updates the profile and changes the          *)
(* password, the admin switches the account off and on, and access tokens  *)
(* expire; from a table in which one user registered at time 0.            *)

NextSession ==
    \/ Tick(Ticks(AccessTokenLifetime))
    \/ \E id \in DOMAIN users : create_tokens(id)
    \/ \E token \in IssuedTokens : validate_access_token(token)
    \/ \E token \in IssuedTokens : validate_refresh_token(token)
    \/ \E token \in Bearers : jwt_auth(1, "verify_email", token, NoData)
    \/ \E token \in Bearers, data \in ProfileUpdates : jwt_auth(1, "update_profile", token, data)
    \/ \E token \in Bearers, data \in PasswordChanges :
           jwt_auth(1, "change_password", token, data)
    \/ verify_email(1)
    \/ update_profile(1)
    \/ change_password(1)
    \/ \E id \in DOMAIN users : deactivate_users({id})
    \/ \E id \in DOMAIN users : activate_users({id})

SpecSession == InitLogin /\ [][NextSession]_vars

-----------------------------------------------------------------------------
(* Profile updates and logins of one user by concurrent clients, from a    *)
(* table in which the user registered at time 0.                           *)

\* two bodies of PUT /me that set disjoint fields
DisjointUpdates ==
    { [NoData EXCEPT !.first_name = Some(Ann)],
      [NoData EXCEPT !.last_name = Some(Lee)] }

NextProfile ==
    \/ authenticate_user(EmailA, PwA, "10.0.0.1")
    \/ \E p \in Procs, token \in Bearers, data \in DisjointUpdates :
           jwt_auth(p, "update_profile", token, data)
    \/ \E p \in Procs : update_profile(p)

SpecProfile == InitLogin /\ [][NextProfile]_vars

-----------------------------------------------------------------------------
(* Properties of registration and login, checked under Spec                *)

\* C1: a pair (email, password) that register_user accepted authenticates
\* while the user is active: authenticate_user with the same pair succeeds
\* and returns that user, whose email is the registered email lowercased
\* and trimmed.
C1_RegisteredPairAuthenticates ==
    resp.op = "authenticate_user" =>
        \A id \in DOMAIN registered :
            ( /\ resp.email = registered[id].email
              /\ resp.password = registered[id].password
              /\ users[id].is_active )
            => /\ resp.ok
               /\ resp.user = id
               /\ users[id].email = LowerStrip(registered[id].email)

\* a login with the very input that was registered in another spelling
C1_Witness ==
    /\ resp.op = "authenticate_user"
    /\ resp.ok
    /\ resp.email = EmailAVariant
    /\ registered[resp.user] = [email |-> EmailAVariant, password |-> resp.password]

\* the call is made with a registered user's email and a password that is
\* not that user's, or with an email no user has
WrongCredentials ==
    /\ resp.op = "authenticate_user"
    /\ resp.email # Empty
    /\ \/ \E id \in DOMAIN users :
              /\ users[id].email = LowerStrip(resp.email)
              /\ resp.password # registered[id].password
       \/ ~EmailExists(users, LowerStrip(resp.email))

C3_DeactivatedIsReported ==
    ( /\ resp.op = "authenticate_user"
      /\ \E id \in DOMAIN users :
             /\ users[id].email = LowerStrip(resp.email)
             /\ resp.password = registered[id].password
             /\ ~users[id].is_active )
    => /\ ~resp.ok
       /\ resp.msg = "User account is deactivated"

-----------------------------------------------------------------------------
(* Properties of tokens, checked under SpecTokens                          *)

\* the result of validating an issued token with the validator of its kind
ValidateIssued(i, t) ==
    IF i.slot = "access_token" THEN ValidateAccess(i.token, t) ELSE ValidateRefresh(i.token, t)

ExpiredMessage(i) ==
    IF i.slot = "access_token" THEN "Token has expired" ELSE "Refresh token has expired"

SlotLifetime(i) ==
    IF i.slot = "access_token" THEN AccessTokenLifetime ELSE RefreshTokenLifetime

\* C4: authenticate_user, refresh_access_token and get_user_from_token
\* never return successfully for a user whose is_active is false.
C4_InactiveBlocksAuthentication ==
    ( /\ resp.ok
      /\ resp.op \in {"authenticate_user", "refresh_access_token", "get_user_from_token"} )
    => users[resp.user].is_active

\* an unexpired access token, minted by a refresh while the user was
\* active, is refused once the user is deactivated
C4_Witness ==
    /\ resp.op = "get_user_from_token"
    /\ resp.msg = "User account is deactivated"
    /\ ValidateAccess(resp.token, now).ok
    /\ \E i \in issued : i.token = resp.token /\ i.by = "refresh_access_token"

\* C5: before its expiry, the access token returned by create_tokens(user)
\* validates to claims with user_id = str(user.id), email = user.email and
\* type = "access".
C5_AccessTokenRoundTrip ==
    \A i \in issued :
        ( /\ i.by = "create_tokens"
          /\ i.slot = "access_token"
          /\ now < Ticks(i.token.payload.exp) )
        => LET v == ValidateAccess(i.token, now)
           IN  /\ v.ok
               /\ v.payload.user_id = StrUuid(i.user)
               /\ v.payload.email = users[i.user].email
               /\ v.payload.type = "access"

\* the service has validated such a token some time after issuing it
C5_Witness ==
    /\ resp.op = "validate_access_token"
    /\ resp.ok
    /\ \E i \in issued :
           /\ i.token = resp.token
           /\ i.by = "create_tokens"
           /\ i.at < now
           /\ resp.payload.user_id = StrUuid(i.user)

\* C6 as stated: a token of the other kind is always rejected as invalid
\* (never as expired).
C6_OtherKindAlwaysInvalid ==
    \A i \in issued :
        /\ i.slot = "refresh_token" =>
               /\ ~ValidateAccess(i.token, now).ok
               /\ ValidateAccess(i.token, now).msg \in {"Invalid token type", "Invalid token"}
        /\ i.slot = "access_token" =>
               /\ ~ValidateRefresh(i.token, now).ok
               /\ ValidateRefresh(i.token, now).msg \in {"Invalid token type", "Invalid refresh token"}

\* C6 (amended): validate_access_token rejects every refresh token and
\* validate_refresh_token every access token, with 'Invalid token type'
\* while the token is unexpired and with the expiry error once it has
\* expired; refresh_access_token succeeds only on refresh tokens and
\* get_user_from_token only on access tokens.
C6_KindsNotInterchangeable ==
    /\ \A i \in issued :
        /\ i.slot = "refresh_token" =>
               /\ ~ValidateAccess(i.token, now).ok
               /\ ValidateAccess(i.token, now).msg =
                      IF now < Ticks(i.token.payload.exp)
                      THEN "Invalid token type" ELSE "Token has expired"
        /\ i.slot = "access_token" =>
               /\ ~ValidateRefresh(i.token, now).ok
               /\ ValidateRefresh(i.token, now).msg =
                      IF now < Ticks(i.token.payload.exp)
                      THEN "Invalid token type" ELSE "Refresh token has expired"
    /\ (resp.op = "refresh_access_token" /\ resp.ok) =>
           \A i \in issued : i.token = resp.token => i.slot = "refresh_token"
    /\ (resp.op = "get_user_from_token" /\ resp.ok) =>
           \A i \in issued : i.token = resp.token => i.slot = "access_token"

\* an unexpired access token was presented to refresh_access_token
C6_Witness ==
    /\ resp.op = "refresh_access_token"
    /\ resp.msg = "Invalid token type"
    /\ \E i \in issued : i.token = resp.token /\ i.slot = "access_token"

\* C7: an issued token validates at every time strictly before its exp and
\* fails as expired at exp and at every later time.
C7_ExpiryIsExclusive ==
    \A i \in issued :
        LET v == ValidateIssued(i, now)
        IN  /\ now < Ticks(i.token.payload.exp) => v.ok
            /\ now >= Ticks(i.token.payload.exp) => ~v.ok /\ v.msg = ExpiredMessage(i)

\* the service was asked about a token at the very instant of its exp
C7_Witness ==
    /\ resp.op = "validate_access_token"
    /\ resp.msg = "Token has expired"
    /\ \E i \in issued : i.token = resp.token /\ now = Ticks(i.token.payload.exp)

\* C8: a token signed with another secret fails both validations as
\* invalid, expired or not; no token the service did not sign is accepted.
C8_ForeignSignatureRejected ==
    \A token \in Presentable :
        /\ (token.segments = 3 /\ token.signature = HS256(token.payload, OtherKey)) =>
               /\ ~ValidateAccess(token, now).ok
               /\ ValidateAccess(token, now).msg = "Invalid token"
               /\ ~ValidateRefresh(token, now).ok
               /\ ValidateRefresh(token, now).msg = "Invalid refresh token"
        /\ token \notin IssuedTokens =>
               ~ValidateAccess(token, now).ok /\ ~ValidateRefresh(token, now).ok

\* a token signed with the other key was presented after its exp
C8_Witness ==
    /\ resp.op = "validate_access_token"
    /\ resp.msg = "Invalid token"
    /\ resp.token.segments = 3
    /\ resp.token.signature = HS256(resp.token.payload, OtherKey)
    /\ Ticks(resp.token.payload.exp) <= now

\* C9: a token the service did not issue is rejected at all times; of an
\* issued token, no step turns a rejection into an acceptance, and no step
\* that ends before its exp changes what validation says of it.
C9_ValidityChangesOnlyByExpiry ==
    /\ [](\A token \in Presentable \ IssuedTokens :
              ~ValidateAccess(token, now).ok /\ ~ValidateRefresh(token, now).ok)
    /\ [][ \A token \in IssuedTokens :
               LET a == ValidateAccess(token, now).ok
                   r == ValidateRefresh(token, now).ok
                   a2 == ValidateAccess(token, now').ok
                   r2 == ValidateRefresh(token, now').ok
               IN  /\ ~a => ~a2
                   /\ ~r => ~r2
                   /\ now' < Ticks(token.payload.exp) => (a2 = a /\ r2 = r)
         ]_vars

\* an issued token is reported expired some time after its exp
C9_Witness ==
    /\ resp.op = "validate_access_token"
    /\ resp.msg = "Token has expired"
    /\ resp.token \in IssuedTokens
    /\ Ticks(resp.token.payload.exp) < now

\* the refresh token of the pair is presented to refresh_access_token while
\* its user is active
RefreshOf(i) ==
    /\ i.by = "create_tokens"
    /\ i.slot = "refresh_token"
    /\ resp.op = "refresh_access_token"
    /\ resp.token = i.token
    /\ users[i.user].is_active

RefreshSucceeds ==
    /\ resp.ok
    /\ ValidateAccess(resp.tokens.access_token, now).ok

\* C10 as stated: from 1 hour up to (not including) 7 days after the issue
\* time the access token is expired and the refresh token still refreshes.
C10_RefreshUntilSevenDaysAfterIssue ==
    \A i \in issued :
        ( /\ i.at + Ticks(AccessTokenLifetime) <= now
          /\ now < i.at + Ticks(RefreshTokenLifetime) )
        => /\ (i.by = "create_tokens" /\ i.slot = "access_token") =>
                  ValidateAccess(i.token, now).msg = "Token has expired"
           /\ RefreshOf(i) => RefreshSucceeds

\* C10 (amended): the tokens of a pair expire 1 hour and 7 days after the
\* issue time truncated to whole seconds (their iat); from 1 hour after
\* issue on the access token is expired, and until iat + 7 days the refresh
\* token still refreshes for an active user, giving a valid access token.
C10_RefreshUntilRefreshExpiry ==
    \A i \in issued :
        i.by = "create_tokens" =>
            /\ i.token.payload.iat = Timegm(i.at)
            /\ i.token.payload.exp = Timegm(i.at) + SlotLifetime(i)
            /\ (i.slot = "access_token" /\ i.at + Ticks(AccessTokenLifetime) <= now) =>
                   ValidateAccess(i.token, now).msg = "Token has expired"
            /\ (RefreshOf(i) /\ now < Ticks(Timegm(i.at) + RefreshTokenLifetime)) =>
                   RefreshSucceeds

\* a refresh succeeded when the access token of the same pair had expired
C10_Witness ==
    /\ resp.op = "refresh_access_token"
    /\ resp.ok
    /\ \E i, j \in issued :
           /\ RefreshOf(i)
           /\ j.by = "create_tokens" /\ j.slot = "access_token"
           /\ j.user = i.user /\ j.at = i.at
           /\ i.at + Ticks(AccessTokenLifetime) <= now
           /\ ValidateAccess(j.token, now).msg = "Token has expired"

\* C11: refresh_access_token neither rotates nor invalidates the refresh
\* token.  Whatever was presented before, a call with an issued, unexpired
\* refresh token of an active user succeeds; a successful call answers with
\* access_token, token_type and expires_in only, and leaves the presented
\* token valid; no call changes the users table.
C11_RefreshDoesNotRotate ==
    /\ [](resp.op = "refresh_access_token" =>
            /\ ( \E i \in issued :
                     /\ i.token = resp.token
                     /\ i.slot = "refresh_token"
                     /\ now < Ticks(i.token.payload.exp)
                     /\ users[i.user].is_active ) => resp.ok
            /\ resp.ok =>
                   /\ DOMAIN resp.tokens = {"access_token", "token_type", "expires_in"}
                   /\ ValidateRefresh(resp.token, now).ok)
    /\ [][resp'.op = "refresh_access_token" => users' = users]_vars

\* the only refresh token the user ever got is accepted again, later than a
\* refresh it was already used for
C11_Witness ==
    /\ resp.op = "refresh_access_token"
    /\ resp.ok
    /\ \A i \in issued :
           (i.slot = "refresh_token" /\ i.user = resp.user) => i.token = resp.token
    /\ \E j \in issued :
           /\ j.by = "refresh_access_token"
           /\ j.user = resp.user
           /\ j.at < now

-----------------------------------------------------------------------------
(* Properties of registration, checked under Spec                          *)

\* the email of the call that ends in the primed state is, lowercased and
\* trimmed, the email under which a user was registered before the call
EmailTaken ==
    /\ resp'.op = "register_user"
    /\ \E id \in DOMAIN registered :
           LowerStrip(registered[id].email) = LowerStrip(resp'.email)

\* C12: register_user with an email whose lowercased, trimmed form is the
\* email of an existing user fails with ValidationError, whatever the
\* password, and leaves the users table as it was.
C12_DuplicateEmailRejected ==
    [][ EmailTaken =>
            /\ ~resp'.ok
            /\ resp'.exc = "ValidationError"
            /\ users' = users
            /\ DOMAIN registered' = DOMAIN registered ]_vars

\* the taken email came in another spelling, with a password that passes
\* the policy
C12_Witness ==
    /\ resp.op = "register_user"
    /\ resp.msg = "User with this email already exists"
    /\ validate_password(resp.password) = {}
    /\ \E id \in DOMAIN registered :
           /\ registered[id].email # resp.email
           /\ LowerStrip(registered[id].email) = LowerStrip(resp.email)

-----------------------------------------------------------------------------
(* Properties of concurrent clients, checked under SpecApi                 *)

\* p's register_user call ends in this step, having passed its checks
\* before another call created a user with the same lowercased, trimmed
\* email
LostRegistrationRace(p) ==
    /\ requests[p].op = "register_user"
    /\ requests[p].pc = "create"
    /\ requests'[p] = Idle
    /\ EmailExists(users, LowerStrip(requests[p].email))

\* C13: of two register_user calls with the same normalized email that run
\* concurrently, one creates the user and the other fails with
\* ValidationError (the error of a duplicate email), in every interleaving.
C13_RaceLoserGetsValidationError ==
    [][ \A p \in Procs :
            LostRegistrationRace(p) =>
                /\ ~resp'.ok
                /\ resp'.exc = "ValidationError"
                /\ users' = users ]_vars

\* C14: in every reachable state no two stored users have the same email
\* and no two the same username, under every interleaving of registration,
\* login, profile update, password change and verify_email; and no step
\* removes a user or changes the id, email or username under which a user
\* is stored.
C14_UniqueAndImmutableIdentity ==
    /\ [](\A a, b \in DOMAIN users :
              a # b => /\ users[a].email # users[b].email
                       /\ users[a].username # users[b].username)
    /\ [][ \A id \in DOMAIN users :
               /\ id \in DOMAIN users'
               /\ users'[id].email = users[id].email
               /\ users'[id].username = users[id].username
               /\ users'[id].created_at = users[id].created_at ]_vars

\* two users are stored, one of them changed by the protected endpoints,
\* when a registration that lost a race for that user's email is refused
C14_Witness ==
    /\ resp.op = "register_user"
    /\ resp.exc = "AuthenticationError"
    /\ Cardinality(DOMAIN users) = 2
    /\ \E id \in DOMAIN users :
           /\ users[id].email = LowerStrip(resp.email)
           /\ users[id].email_verified
           /\ users[id].first_name = Ann
           /\ registered[id].password = PwB

\* C15: register_user rejects every password shorter than 8 characters
\* with ValidationError, for every email, and creates no user.
C15_ShortPasswordRejected ==
    [][ (resp'.op = "register_user" /\ Len(resp'.password) < MinPasswordLength) =>
            /\ ~resp'.ok
            /\ resp'.exc = "ValidationError"
            /\ users' = users ]_vars

\* a password of 7 characters, which fails no other validator, is refused
\* for an email that is free
C15_Witness ==
    /\ resp.op = "register_user"
    /\ resp.msg = "Password validation failed"
    /\ Len(resp.password) = MinPasswordLength - 1
    /\ CommonPasswordValidator(resp.password) \cup NumericPasswordValidator(resp.password) = {}
    /\ LowerStrip(resp.email) # Empty
    /\ ~EmailExists(users, LowerStrip(resp.email))

\* C16: every failure of register_user that its inputs cause is a
\* ValidationError, AuthenticationError ('Failed to create user') being
\* kept for a failure to persist the user; no failure creates a user.
\* (Under Spec the table never fails, so every failure is one of input.)
C16_InputFailuresAreValidationErrors ==
    [][ (resp'.op = "register_user" /\ ~resp'.ok) =>
            /\ resp'.exc = "ValidationError"
            /\ users' = users ]_vars

\* C17: the user a successful register_user creates has the input email
\* lowercased and trimmed, that email as username, is_active true,
\* email_verified false, and a password stored hashed: check_password
\* accepts the input and the stored value is not the input.
C17_CreatedUserFields ==
    (resp.op = "register_user" /\ resp.ok) =>
        LET u == users[resp.user]
        IN  /\ u.email = LowerStrip(resp.email)
            /\ u.username = u.email
            /\ u.is_active
            /\ ~u.email_verified
            /\ check_password(resp.password, u.password)
            /\ u.password.hash # resp.password

\* a user was created from an email given in capitals between spaces
C17_Witness ==
    /\ resp.op = "register_user"
    /\ resp.ok
    /\ resp.email = EmailAVariant
    /\ users[resp.user].email = EmailA

-----------------------------------------------------------------------------
(* Properties of email verification, checked under SpecAccount             *)

\* p's request is answered in this step by the handler named op
Handled(p, op) == InHandler(p, op) /\ requests'[p] = Idle

\* C18: verify_email called twice in sequence for one user: a request that
\* finds email_verified false when it begins is answered 200 and sets it;
\* a request that begins once it is set (as the second of two calls in
\* sequence does) is answered 400 'already_verified', and email_verified
\* is true afterwards.
C18_SecondVerifyRefused ==
    /\ [][ \A p \in Procs :
               (requests[p] = Idle /\ InHandler(p, "verify_email")')
                   => requests'[p].row = users[requests'[p].user] ]_vars
    /\ [][ \A p \in Procs :
               Handled(p, "verify_email") =>
                   LET u == requests[p].user
                   IN  IF requests[p].row.email_verified
                       THEN /\ resp'.status = 400
                            /\ resp'.error = "already_verified"
                            /\ users' = users
                            /\ users'[u].email_verified
                       ELSE /\ resp'.status = 200
                            /\ users'[u].email_verified ]_vars

\* a verify_email request was refused for a user whose email is verified
C18_Witness ==
    /\ resp.op = "verify_email"
    /\ resp.status = 400
    /\ resp.error = "already_verified"
    /\ users[resp.user].email_verified
    /\ resp.token.payload.email_verified

\* C19: email_verified is false in the user registration creates, and no
\* step of login, refresh, profile update, password change or verify_email
\* turns a true email_verified back to false.
C19_EmailVerifiedMonotone ==
    /\ []((resp.op = "register_user" /\ resp.ok) => ~users[resp.user].email_verified)
    /\ [][ \A id \in DOMAIN users :
               users[id].email_verified =>
                   (id \in DOMAIN users' /\ users'[id].email_verified) ]_vars

\* a profile update that began before the email was verified (its bearer
\* token still says unverified) is saved after the verification, which it
\* leaves in place
C19_Witness ==
    /\ resp.op = "update_profile"
    /\ resp.status = 200
    /\ users[resp.user].email_verified
    /\ ~resp.token.payload.email_verified
    /\ users[resp.user].first_name = Ann

-----------------------------------------------------------------------------
(* Properties of login over time, checked under SpecLogin                  *)

\* C20: authenticate_user writes the table exactly when it succeeds with
\* an ip_address: it then sets the user's last_login_ip to that address
\* and updated_at to the current time, and nothing else; with no address,
\* and on every failure (empty input, unknown email, wrong password,
\* deactivated account), it leaves every field of every user as it was.
C20_LoginWritesOnlyOnSuccessWithIp ==
    [][ resp'.op = "authenticate_user" =>
            IF resp'.ok /\ resp'.ip # None
            THEN users' = [users EXCEPT ![resp'.user].last_login_ip = resp'.ip,
                                        ![resp'.user].updated_at = now']
            ELSE users' = users ]_vars

\* a login with an address, later than the registration, has left the
\* address and the time of the login in the row
C20_Witness ==
    /\ resp.op = "authenticate_user"
    /\ resp.ok
    /\ resp.ip # None
    /\ users[resp.user].last_login_ip = resp.ip
    /\ users[resp.user].updated_at = now
    /\ users[resp.user].created_at < now

-----------------------------------------------------------------------------
(* Properties of tokens through the life of their users, checked under     *)
(* SpecLifecycle                                                           *)

\* the user attributes the two tokens embed are the same
SameAttributes(i, j) ==
    /\ i.token.payload.email = j.token.payload.email
    /\ i.slot = "access_token" =>
           /\ i.token.payload.username = j.token.payload.username
           /\ i.token.payload.is_staff = j.token.payload.is_staff
           /\ i.token.payload.is_superuser = j.token.payload.is_superuser
           /\ i.token.payload.email_verified = j.token.payload.email_verified

\* C21: create_tokens changes no user record and its result is a function
\* of the user and the current time: token_type is 'Bearer' and expires_in
\* 3600, and the tokens returned under one key by calls for the same user,
\* with the same attributes, at the same instant are identical, the jti of
\* the refresh token included.
C21_CreateTokensIsPure ==
    /\ [][ resp'.op = "create_tokens" =>
               /\ users' = users
               /\ resp'.tokens.token_type = "Bearer"
               /\ resp'.tokens.expires_in = 3600
               /\ Issue(resp'.tokens.access_token, "access_token",
                        resp'.user, now, "create_tokens") \in issued'
               /\ Issue(resp'.tokens.refresh_token, "refresh_token",
                        resp'.user, now, "create_tokens") \in issued' ]_vars
    /\ [](\A i, j \in issued :
              ( /\ i.by = "create_tokens" /\ j.by = "create_tokens"
                /\ i.user = j.user /\ i.slot = j.slot /\ i.at = j.at
                /\ SameAttributes(i, j) )
              => /\ i.token = j.token
                 /\ i.slot = "refresh_token" => i.token.payload.jti = j.token.payload.jti)

\* create_tokens has answered for a user who got a pair at an earlier time
\* too, and the two pairs differ
C21_Witness ==
    /\ resp.op = "create_tokens"
    /\ resp.tokens.refresh_token.payload.jti = _generate_token_id(StrUuid(resp.user), now)
    /\ \E i \in issued :
           /\ i.by = "create_tokens" /\ i.slot = "refresh_token"
           /\ i.user = resp.user /\ i.at < now
           /\ i.token # resp.tokens.refresh_token

\* the token is a refresh token the service issued and has not expired
GoodRefreshToken(token) ==
    \E i \in issued :
        /\ i.token = token
        /\ i.slot = "refresh_token"
        /\ now < Ticks(i.token.payload.exp)

\* the id a token written by the service names
TokenUser(token) == ParseUuid(token.payload.user_id)

\* C22: refresh_access_token checks in a fixed order.  A token that is
\* expired, malformed, wrongly signed or of the wrong type fails with
\* TokenError, whether or not its user exists or is active; a good token
\* fails with 'User not found' when no user has the embedded id, and with
\* 'User account is deactivated' when that user is inactive; only when all
\* three checks pass is an access token returned.
C22_RefreshChecksInOrder ==
    resp.op = "refresh_access_token" =>
        IF ~GoodRefreshToken(resp.token)
        THEN ~resp.ok /\ resp.exc = "TokenError"
        ELSE IF TokenUser(resp.token) \notin DOMAIN users
        THEN ~resp.ok /\ resp.exc = "AuthenticationError" /\ resp.msg = "User not found"
        ELSE IF ~users[TokenUser(resp.token)].is_active
        THEN /\ ~resp.ok /\ resp.exc = "AuthenticationError"
             /\ resp.msg = "User account is deactivated"
        ELSE /\ resp.ok
             /\ resp.user = TokenUser(resp.token)
             /\ ValidateAccess(resp.tokens.access_token, now).ok

\* an expired refresh token of a deleted user is refused for its expiry
C22_Witness ==
    /\ resp.op = "refresh_access_token"
    /\ resp.exc = "TokenError"
    /\ resp.msg = "Refresh token has expired"
    /\ resp.token \in IssuedTokens
    /\ TokenUser(resp.token) \notin DOMAIN users

\* the token is an access token the service issued and has not expired
GoodAccessToken(token) ==
    \E i \in issued :
        /\ i.token = token
        /\ i.slot = "access_token"
        /\ now < Ticks(i.token.payload.exp)

\* C23: get_user_from_token on an unexpired access token issued for a user
\* returns that very user, the one whose id the token embeds, while the
\* user is stored and active; it fails with 'User not found' once the user
\* is removed, and never answers with another user.
C23_TokenResolvesToItsUser ==
    (resp.op = "get_user_from_token" /\ GoodAccessToken(resp.token)) =>
        \A i \in issued :
            i.token = resp.token =>
                /\ TokenUser(resp.token) = i.user
                /\ IF i.user \notin DOMAIN users
                   THEN /\ ~resp.ok /\ resp.user = NoUser
                        /\ resp.exc = "AuthenticationError" /\ resp.msg = "User not found"
                   ELSE IF users[i.user].is_active
                   THEN resp.ok /\ resp.user = i.user
                   ELSE ~resp.ok /\ resp.user = NoUser

\* the token of a removed user is presented while another user is stored
C23_Witness ==
    /\ resp.op = "get_user_from_token"
    /\ GoodAccessToken(resp.token)
    /\ resp.msg = "User not found"
    /\ TokenUser(resp.token) \notin DOMAIN users
    /\ DOMAIN users # {}

-----------------------------------------------------------------------------
(* Properties of the public endpoints, checked under SpecHandlers          *)

\* C24: no exception escapes the login, register and refresh handlers, and
\* each answers by the kind of what the service raised: login 200 on
\* success, 401 for an AuthenticationError, 400 for any other failure;
\* refresh 200 on success, 401 for a TokenError or an AuthenticationError,
\* 400 otherwise; register 201 on success and 400 for every failure.  A
\* success carries the tokens, a failure changes no user.
C24_HandlersAnswerEveryFailure ==
    /\ [](resp.op = "login" =>
            /\ resp.status = ( IF resp.exc = "" THEN 200
                               ELSE IF resp.exc = "AuthenticationError" THEN 401
                               ELSE 400 )
            /\ resp.status = 200 => ValidateAccess(resp.tokens.access_token, now).ok)
    /\ [](resp.op = "refresh_token" =>
            /\ resp.status = ( IF resp.exc = "" THEN 200
                               ELSE IF resp.exc \in {"TokenError", "AuthenticationError"} THEN 401
                               ELSE 400 )
            /\ resp.status = 200 => ValidateAccess(resp.tokens.access_token, now).ok)
    /\ [](resp.op = "register" =>
            /\ resp.status = (IF resp.exc = "" THEN 201 ELSE 400)
            /\ resp.status = 201 => ValidateAccess(resp.tokens.access_token, now).ok)
    /\ [][ (resp'.op \in {"login", "register", "refresh_token"} /\ resp'.exc # "")
               => users' = users /\ issued' = issued ]_vars

\* the login of a registered user failed for a reason that is no
\* AuthenticationError, and was answered 400
C24_Witness ==
    /\ resp.op = "login"
    /\ resp.status = 400
    /\ resp.error = "invalid_request"
    /\ resp.exc \notin {"", "AuthenticationError"}
    /\ \E id \in DOMAIN users :
           /\ users[id].email = LowerStrip(resp.email)
           /\ check_password(resp.password, users[id].password)

-----------------------------------------------------------------------------
(* Properties of the protected endpoints, checked under SpecGuard          *)

Protected == {"get_current_user", "update_profile", "change_password", "verify_email"}

\* the token is an unexpired access token the service issued for a user
\* who is stored and active
ActiveBearer(token) ==
    \E i \in issued :
        /\ i.token = token
        /\ i.slot = "access_token"
        /\ now < Ticks(i.token.payload.exp)
        /\ i.user \in DOMAIN users
        /\ users[i.user].is_active

\* a request to a protected endpoint arrives in this step
Arrives == resp'.op = "jwt_auth" \/ resp'.status = 401

\* C25: a protected endpoint runs its handler only for a bearer that is a
\* valid, unexpired access token of a stored, active user, and then for
\* that user.  A request with no token, an expired or tampered token, a
\* refresh token, or the token of a deleted or deactivated user is answered
\* 401, its handler does not run, and no user record is modified.
C25_HandlersRunOnlyForActiveBearers ==
    [][ /\ Arrives =>
               /\ users' = users
               /\ IF ActiveBearer(resp'.token)
                  THEN /\ resp'.op = "jwt_auth"
                       /\ \E p \in Procs :
                              /\ requests[p] = Idle
                              /\ requests'[p].pc = "handler"
                              /\ requests'[p].op \in Protected
                              /\ requests'[p].token = resp'.token
                              /\ requests'[p].user = TokenUser(resp'.token)
                  ELSE /\ resp'.status = 401
                       /\ resp'.op \in Protected
                       /\ requests' = requests
        /\ \A p \in Procs :
               (requests'[p].pc = "handler" /\ requests[p].pc # "handler") =>
                   Arrives /\ ActiveBearer(requests'[p].token)
        /\ \A p \in Procs :
               (resp'.op \in Protected /\ resp'.status # 401) =>
                   \E q \in Procs : InHandler(q, resp'.op) /\ requests'[q] = Idle
      ]_vars

\* an unexpired access token is refused because its user was deleted
C25_Witness ==
    /\ resp.op \in Protected
    /\ resp.status = 401
    /\ GoodAccessToken(resp.token)
    /\ TokenUser(resp.token) \notin DOMAIN users

-----------------------------------------------------------------------------
(* Properties of password changes, checked under SpecPassword              *)

-----------------------------------------------------------------------------
(* Properties of the audit fields, checked under SpecAudit                 *)

\* C27: every step that changes a stored user record (the login that
\* records an address, profile update, password change, email verification
\* and the admin's bulk actions) sets that record's updated_at to the time
\* of the change, and created_at never changes.
C27_EveryMutationSetsUpdatedAt ==
    [][ \A id \in DOMAIN users :
            /\ id \in DOMAIN users'
            /\ users'[id].created_at = users[id].created_at
            /\ users'[id] # users[id] => users'[id].updated_at = now' ]_vars

-----------------------------------------------------------------------------
(* Properties of tokens of a changing user, checked under SpecSession      *)

\* C28: token validation is stateless.  What validate_access_token and
\* validate_refresh_token answer for an issued token depends on the token
\* and the current time only: the token is accepted exactly when it is of
\* the validator's kind and unexpired, and its claims are returned as they
\* were issued, whatever has happened to the user since (password change,
\* email verification, profile update, deactivation, reactivation).
C28_ValidationIsStateless ==
    /\ resp.op = "validate_access_token" =>
           \A i \in issued :
               i.token = resp.token =>
                   /\ resp.ok <=> (i.slot = "access_token" /\ now < Ticks(i.token.payload.exp))
                   /\ resp.ok => resp.payload = i.token.payload
    /\ resp.op = "validate_refresh_token" =>
           \A i \in issued :
               i.token = resp.token =>
                   /\ resp.ok <=> (i.slot = "refresh_token" /\ now < Ticks(i.token.payload.exp))
                   /\ resp.ok => resp.payload = i.token.payload

\* an access token issued before the user verified the email, changed the
\* password and updated the profile is accepted afterwards, with the
\* claims it was issued with
C28_Witness ==
    /\ resp.op = "validate_access_token"
    /\ resp.ok
    /\ ~resp.payload.email_verified
    /\ \E id \in DOMAIN users :
           /\ StrUuid(id) = resp.payload.user_id
           /\ users[id].email_verified
           /\ users[id].first_name = Ann
           /\ registered[id].password = PwB
           /\ ~check_password(PwA, users[id].password)

-----------------------------------------------------------------------------
(* Properties of refreshed tokens, checked under SpecAccount               *)

\* C29: the access token refresh_access_token returns carries the user's
\* attributes as they are stored when it is minted (email, username,
\* is_staff, is_superuser, email_verified) and the user's id, whatever the
\* refresh token embeds and whatever they were when it was issued; the
\* access tokens returned earlier keep the values they were issued with.
C29_RefreshReadsStoredAttributes ==
    /\ [](( resp.op = "refresh_access_token" /\ resp.ok ) =>
            LET a == resp.tokens.access_token.payload
                u == users[resp.user]
            IN  /\ a.user_id = StrUuid(resp.user)
                /\ a.user_id = resp.token.payload.user_id
                /\ a.email = u.email
                /\ a.username = u.username
                /\ a.is_staff = u.is_staff
                /\ a.is_superuser = u.is_superuser
                /\ a.email_verified = u.email_verified
                /\ a.type = "access")
    /\ [][ \A i \in issued : i \in issued' ]_vars

\* after verify_email the refresh token that gave an access token saying
\* 'unverified' gives one saying 'verified', and the earlier one is still
\* valid
C29_Witness ==
    /\ resp.op = "refresh_access_token"
    /\ resp.ok
    /\ resp.tokens.access_token.payload.email_verified
    /\ \E j \in issued :
           /\ j.by = "refresh_access_token"
           /\ j.user = resp.user
           /\ ~j.token.payload.email_verified
           /\ ValidateAccess(j.token, now).ok

-----------------------------------------------------------------------------
(* Properties of concurrent profile updates, checked under SpecProfile     *)

\* C30: no update is lost between concurrent requests of one user.  An
\* update_profile request leaves the profile fields it was not given, and
\* last_login_ip, as they are stored when it saves, and a login that
\* records the address leaves the profile fields as they are; so that
\* after two requests that set disjoint fields, in any interleaving, the
\* record holds the new values of both.
C30_NoLostUpdate ==
    [][ /\ \A p \in Procs :
               Handled(p, "update_profile") =>
                   LET u == requests[p].user
                       d == requests[p].data
                   IN  /\ d.first_name = Nothing => users'[u].first_name = users[u].first_name
                       /\ d.last_name = Nothing => users'[u].last_name = users[u].last_name
                       /\ d.avatar_url = Nothing => users'[u].avatar_url = users[u].avatar_url
                       /\ users'[u].last_login_ip = users[u].last_login_ip
        /\ (resp'.op = "authenticate_user" /\ resp'.ok) =>
               LET u == resp'.user
               IN  /\ users'[u].first_name = users[u].first_name
                   /\ users'[u].last_name = users[u].last_name
                   /\ users'[u].last_login_ip = resp'.ip
      ]_vars

====
